---------------------------- MODULE Spec2Model ----------------------------
(***************************************************************************)
(* Content-risk scoring engine of team-spark: TextAnalysisService,         *)
(* ToxicityAnalyzer, ProfanityFilter, the context / intent / sentiment     *)
(* helper classes and the risk aggregator.                                 *)
(*                                                                         *)
(* Numbers.  Scores are JavaScript numbers.  Every score the detectors     *)
(* produce is a multiple of 1/500 (integers times products of the factors  *)
(* 0.1 0.2 0.3 0.4 1.3 1.4 1.5), so a score s is held as the integer       *)
(* s * Scale.  Products with the aggregator's factors are held as          *)
(* fractions [n, d] and compared by cross multiplication; all values stay  *)
(* below 2^31.  Rounding errors of IEEE doubles are not modelled.          *)
(***************************************************************************)
EXTENDS Integers, Sequences, FiniteSets, TLC

\* ------------------------------------------------------------------------
\* Bounds of the model
\* ------------------------------------------------------------------------

\* A request text is the concatenation of 1..MaxPhrases phrases.
MaxPhrases == 2

\* Fixed-point scale of a score: 1/500 = 1/(10 * 10 * 5).
Scale == 10 * 10 * 5

Min(S) == CHOOSE x \in S : \A y \in S : x <= y

\* ------------------------------------------------------------------------
\* Request texts
\* ------------------------------------------------------------------------

\* Punctuation characters of the request texts (each one character).
Punctuation == {"!", ",", "?"}

\* The phrases request texts are built from, as sequences of raw tokens.
\* Words are written one space apart; a punctuation character follows the
\* token before it without a space.
Phrases ==
  << <<"yeah", "right">>,
     <<"I", "hate", "all", "jews">>,
     <<"you", "are", "so", "stupid">>,
     <<"good">>,
     <<"according", "to">>,
     <<"i", "will", "kill", "you">>,
     <<"lol">>,
     <<"!", "!", "!">>,
     <<"you", "are", "worthless">> >>

\* Request texts of their own: the scenario inputs "I hate all people of
\* this race" (also with an exclamation mark), "yeah right, I hate all
\* those people" (also without the sarcasm marker) and "Hello, how are you
\* today?".
Scenarios ==
  { <<"I", "hate", "all", "people", "of", "this", "race">>,
    <<"I", "hate", "all", "people", "of", "this", "race", "!">>,
    <<"yeah", "right", ",", "I", "hate", "all", "those", "people">>,
    <<"I", "hate", "all", "those", "people">>,
    <<"Hello", ",", "how", "are", "you", "today", "?">> }

RECURSIVE Concat(_)
Concat(ps) == IF ps = <<>> THEN <<>> ELSE Phrases[Head(ps)] \o Concat(Tail(ps))

\* The request texts: request.text of TextAnalysisRequest.
Texts ==
  { Concat(ps) : ps \in UNION { [1..n -> 1..Len(Phrases)] : n \in 1..MaxPhrases } }
    \cup Scenarios

\* Number of characters of a raw token.
CharLen(t) ==
  CASE t \in {"I", "i", "!", ",", "?"} -> 1
    [] t \in {"to", "so", "of"} -> 2
    [] t \in {"all", "you", "are", "lol", "how"} -> 3
    [] t \in {"yeah", "hate", "jews", "good", "will", "kill", "this", "race"} -> 4
    [] t \in {"right", "those", "today", "Hello", "hello"} -> 5
    [] t \in {"stupid", "people"} -> 6
    [] t \in {"according", "worthless"} -> 9

\* String.prototype.toLowerCase on a token.
toLowerCase(t) == IF t = "I" THEN "i" ELSE IF t = "Hello" THEN "hello" ELSE t

\* Offset of raw token k in the request string.
RECURSIVE RawStart(_, _)
RawStart(raw, k) ==
  IF k = 1 THEN 0
  ELSE RawStart(raw, k - 1) + CharLen(raw[k - 1])
         + (IF raw[k] \in Punctuation THEN 0 ELSE 1)

\* preprocessText: lower case, trim, collapse white space, replace every
\* character that is neither a word character nor white space by a space,
\* trim.  The result is the string whose words are toks[i].w, beginning at
\* offset toks[i].at, of length len (punctuation leaves extra spaces
\* between words; leading and trailing ones are trimmed away).
preprocessText(raw) ==
  LET idx   == SelectSeq([k \in 1..Len(raw) |-> k],
                         LAMBDA k : raw[k] \notin Punctuation)
      shift == IF idx = <<>> THEN 0 ELSE RawStart(raw, idx[1])
      toks  == [i \in 1..Len(idx) |->
                  [w  |-> toLowerCase(raw[idx[i]]),
                   at |-> RawStart(raw, idx[i]) - shift]]
  IN  [toks |-> toks,
       len  |-> IF idx = <<>> THEN 0
                ELSE toks[Len(toks)].at + CharLen(toks[Len(toks)].w)]

\* text.split(/\s+/) of a preprocessed text (an empty text gives one empty
\* word, which equals no keyword).
Words(text) == [i \in 1..Len(text.toks) |-> text.toks[i].w]

\* The pairs <<word, keyword>> of a word of the request texts and a
\* keyword of the analyzers that is a part of it without being all of it.
ProperlyContains == {<<"hello", "hell">>}

\* text.includes(keyword) for a one-word keyword: the keyword is a word of
\* the text, or a part of one.
includes(text, keyword) ==
  \E i \in 1..Len(text.toks) :
    text.toks[i].w = keyword \/ <<text.toks[i].w, keyword>> \in ProperlyContains

\* text.match(/!/g).length, the number of exclamation marks of a
\* preprocessed text: preprocessText has replaced them all.
exclamationCount(text) == Cardinality({i \in 1..Len(text.toks) : text.toks[i].w = "!"})

\* ------------------------------------------------------------------------
\* Regular expressions
\* ------------------------------------------------------------------------
\* A pattern is a sequence of alternatives in the order the regex engine
\* tries them (an optional group first with, then without it); an
\* alternative is a sequence of word sets, matched against consecutive
\* words (\s+ between them).

MatchesAt(alt, text, p) ==
  /\ p + Len(alt) - 1 <= Len(text.toks)
  /\ \A k \in 1..Len(alt) : text.toks[p + k - 1].w \in alt[k]

\* End offset of the match of pat beginning at word p.
MatchEnd(pat, text, p) ==
  LET a    == Min({x \in 1..Len(pat) : MatchesAt(pat[x], text, p)})
      last == text.toks[p + Len(pat[a]) - 1]
  IN  last.at + CharLen(last.w)

\* RegExp.prototype.test of a global (/g) regex whose lastIndex is from:
\* the search begins at offset from; a match leaves lastIndex at its end, a
\* failure resets lastIndex to 0.
RegExpTest(pat, text, from) ==
  LET starts == {p \in 1..Len(text.toks) :
                   /\ text.toks[p].at >= from
                   /\ \E x \in 1..Len(pat) : MatchesAt(pat[x], text, p)}
  IN  IF from > text.len \/ starts = {}
      THEN [matched |-> FALSE, lastIndex |-> 0]
      ELSE [matched |-> TRUE, lastIndex |-> MatchEnd(pat, text, Min(starts))]

\* test of a regex literal evaluated anew (lastIndex = 0).
test(pat, text) == RegExpTest(pat, text, 0).matched

\* patterns.some(pattern => pattern.test(text)) over fresh literals.
some(pats, text) == \E i \in 1..Len(pats) : test(pats[i], text)

\* Number of patterns of a list that match.
CountMatches(pats, text) == Cardinality({i \in 1..Len(pats) : test(pats[i], text)})

\* A one-alternative pattern of the given word sets.
P1(slots) == << slots >>

\* ------------------------------------------------------------------------
\* ContextAnalyzer
\* ------------------------------------------------------------------------

sarcasmIndicators ==
  << P1(<<{"yeah"}, {"right"}>>), P1(<<{"sure"}, {"thing"}>>),
     P1(<<{"oh"}, {"great"}>>), P1(<<{"wonderful"}>>), P1(<<{"fantastic"}>>),
     P1(<<{"as"}, {"if"}>>), P1(<<{"whatever"}>>) >>

ironyIndicators ==
  << P1(<<{"ironically"}>>), P1(<<{"paradoxically"}>>),
     P1(<<{"surprisingly"}>>), P1(<<{"unexpectedly"}>>) >>

\* The last pattern is the emoji alternation; preprocessText leaves no emoji.
playfulIndicators ==
  << P1(<<{"lol"}>>), P1(<<{"haha"}>>), P1(<<{"hehe"}>>), P1(<<{"jk"}>>),
     P1(<<{"just"}, {"kidding"}>>), P1(<<{"emoji"}>>) >>

friendlyIndicators ==
  << P1(<<{"please"}>>), P1(<<{"thank"}, {"you"}>>), P1(<<{"thanks"}>>),
     P1(<<{"appreciate"}>>), P1(<<{"kind"}, {"of"}>>), P1(<<{"sort"}, {"of"}>>) >>

educationalIndicators ==
  << P1(<<{"according"}, {"to"}>>), P1(<<{"research"}, {"shows"}>>),
     P1(<<{"studies"}, {"indicate"}>>), P1(<<{"historically"}>>),
     P1(<<{"in"}, {"fact"}>>), P1(<<{"for"}, {"example"}>>) >>

\* The first pattern is /in\s+\d{4}/; "1945" stands for the four-digit words.
historicalIndicators ==
  << P1(<<{"in"}, {"1945"}>>), P1(<<{"during"}, {"the"}>>),
     P1(<<{"historically"}>>), P1(<<{"in"}, {"the"}, {"past"}>>),
     P1(<<{"century"}>>), P1(<<{"era"}>>) >>

formalIndicators ==
  << P1(<<{"therefore"}>>), P1(<<{"however"}>>), P1(<<{"furthermore"}>>),
     P1(<<{"moreover"}>>), P1(<<{"consequently"}>>) >>

\* ContextAnalyzer.analyze
ContextAnalyzer(text) ==
  [isSarcastic   |-> some(sarcasmIndicators, text),
   isIronic      |-> some(ironyIndicators, text),
   isPlayful     |-> some(playfulIndicators, text),
   isFriendly    |-> some(friendlyIndicators, text),
   isEducational |-> some(educationalIndicators, text),
   isHistorical  |-> some(historicalIndicators, text),
   isFormal      |-> some(formalIndicators, text)]

\* ------------------------------------------------------------------------
\* IntentAnalyzer
\* ------------------------------------------------------------------------

threatIndicators ==
  << P1(<<{"i"}, {"will"}, {"hurt", "harm", "kill", "attack"}>>),
     P1(<<{"you"}, {"will"}, {"pay", "suffer", "regret"}>>),
     P1(<<{"threat"}>>), P1(<<{"warning"}>>) >>

aggressionIndicators ==
  << P1(<<{"angry"}>>), P1(<<{"furious"}>>), P1(<<{"rage"}>>),
     P1(<<{"attack"}>>), P1(<<{"fight"}>>), P1(<<{"destroy"}>>) >>

hostilityIndicators ==
  << P1(<<{"hate"}>>), P1(<<{"despise"}>>), P1(<<{"loathe"}>>),
     P1(<<{"enemy"}>>), P1(<<{"opponent"}>>) >>

constructiveIndicators ==
  << P1(<<{"suggest"}>>), P1(<<{"recommend"}>>), P1(<<{"propose"}>>),
     P1(<<{"help"}>>), P1(<<{"improve"}>>), P1(<<{"better"}>>) >>

\* detectClarity: more than 5 words and one of . ! ? in the text.
detectClarity(text) ==
  LET wordCount      == IF text.toks = <<>> THEN 1 ELSE Len(text.toks)
      hasPunctuation == \E i \in 1..Len(text.toks) : text.toks[i].w \in {".", "!", "?"}
  IN  wordCount > 5 /\ hasPunctuation

\* IntentAnalyzer.analyze
IntentAnalyzer(text) ==
  [isThreatening  |-> some(threatIndicators, text),
   isAggressive   |-> some(aggressionIndicators, text),
   isHostile      |-> some(hostilityIndicators, text),
   isClear        |-> detectClarity(text),
   isConstructive |-> some(constructiveIndicators, text)]

\* ------------------------------------------------------------------------
\* Scores
\* ------------------------------------------------------------------------

\* score *= n/d on a score held in units of 1/Scale (exact, see above).
Times(score, n, d) == (score * n) \div d

\* Math.min(score, 100)
Clamp100(score) == IF score < 100 * Scale THEN score ELSE 100 * Scale

\* getRiskLevel with > for >=: a score on a breakpoint gets the level below.
getRiskLevel_Strict(score) ==
  IF score > 80 * Scale THEN "critical"
  ELSE IF score > 60 * Scale THEN "high"
  ELSE IF score > 40 * Scale THEN "medium"
  ELSE "low"

\* getRiskLevel (TextAnalysisService and SentimentAnalyzer alike)
getRiskLevel(score) ==
  IF score >= 80 * Scale THEN "critical"
  ELSE IF score >= 60 * Scale THEN "high"
  ELSE IF score >= 40 * Scale THEN "medium"
  ELSE "low"

\* ------------------------------------------------------------------------
\* External classifiers
\* ------------------------------------------------------------------------

\* Outcome of an axios.post to an external classifier: the call fails
\* (rejects), or answers with a score, given here in percent.
Answer(score) == [status |-> "answered", score |-> score]

MLFail == [status |-> "failed", score |-> 0]

Pending == [status |-> "pending", score |-> 0]

\* The scores a classifier answers with.
MLScores == {30, 35, 90}

\* getMLHateSpeechScore with a fallback of 50 for the failed call.
getMLHateSpeechScore_Fallback50(outcome) ==
  IF outcome.status = "answered" THEN outcome.score ELSE 50

\* getMLHateSpeechScore: Math.round(hateScore * 100) of the answer, 0 when
\* the call failed (the error is caught and logged).
getMLHateSpeechScore(outcome) ==
  IF outcome.status = "answered" THEN outcome.score ELSE 0

\* getMLToxicityScore answering 50 when the call fails.
getMLToxicityScore_Fallback50(outcome) ==
  IF outcome.status = "answered" THEN outcome.score ELSE 50

\* getMLToxicityScore: the rounded weighted attribute score of the answer,
\* 0 when the call failed (the error is caught and logged).
getMLToxicityScore(outcome) ==
  IF outcome.status = "answered" THEN outcome.score ELSE 0

\* ------------------------------------------------------------------------
\* Hate speech
\* ------------------------------------------------------------------------

\* (blacks?|whites?|jews?|muslims?|gays?|women?|men) as a whole word
Group ==
  {"black", "blacks", "white", "whites", "jew", "jews", "muslim", "muslims",
   "gay", "gays", "wome", "women", "men"}

directHate ==
  << << <<{"i"}, {"hate"}, {"all"}, Group>>, <<{"i"}, {"hate"}, Group>> >>,
     << <<Group, {"should"}, {"die"}>>, <<Group, {"should"}, {"be"}, {"killed"}>>,
        <<Group, {"should"}, {"be"}, {"eliminated"}>> >>,
     P1(<<{"nazi", "fascist", "supremacist"},
          {"ideology", "belief", "beliefs", "view", "views"}>>) >>

\* The second pattern needs the word don't, which preprocessText splits.
indirectHate ==
  << P1(<<Group, {"are"}, {"inferior", "superior", "animal", "animals", "scum"}>>),
     P1(<<Group, {"don't"}, {"belong"}>>),
     P1(<<Group, {"are"}, {"ruining", "destroying"}>>) >>

dehumanizing ==
  << P1(<<Group, {"are"}, {"animal", "animals", "vermin", "pest", "pests"}>>),
     P1(<<Group, {"should"}, {"be"}, {"exterminated", "eliminated"}>>) >>

\* The loops of analyzeHateSpeech over the three tiers: the number of
\* patterns of each tier that match.
HateMatches(text) ==
  [directHate   |-> CountMatches(directHate, text),
   indirectHate |-> CountMatches(indirectHate, text),
   dehumanizing |-> CountMatches(dehumanizing, text)]

\* score of analyzeHateSpeech before the classifier call: the tiers, then
\* the context and intent factors.
HateRuleScore(m, ctx, intent) ==
  LET s0 == (40 * m.directHate + 25 * m.indirectHate + 35 * m.dehumanizing) * Scale
      s1 == IF ctx.isSarcastic \/ ctx.isIronic THEN Times(s0, 3, 10) ELSE s0
      s2 == IF ctx.isEducational \/ ctx.isHistorical THEN Times(s1, 2, 10) ELSE s1
  IN  IF intent.isThreatening THEN Times(s2, 15, 10) ELSE s2

\* detected of analyzeHateSpeech before the classifier call.
HateTierMatch(m) == m.directHate + m.indirectHate + m.dehumanizing > 0

\* analyzeHateSpeech with mlScore >= 30 for mlScore > 30.
analyzeHateSpeech_DetectAt30(m, ctx, intent, outcome) ==
  LET rule    == HateRuleScore(m, ctx, intent)
      mlScore == getMLHateSpeechScore(outcome) * Scale
      merged  == IF mlScore > rule THEN mlScore ELSE rule
      score   == Clamp100(merged)
  IN  [score    |-> score,
       level    |-> getRiskLevel(score),
       detected |-> HateTierMatch(m) \/ mlScore >= 30 * Scale]

\* analyzeHateSpeech; m are the matches of the text, outcome is the outcome
\* of the classifier call.
analyzeHateSpeech(m, ctx, intent, outcome) ==
  LET rule    == HateRuleScore(m, ctx, intent)
      mlScore == getMLHateSpeechScore(outcome) * Scale
      merged  == IF mlScore > rule THEN mlScore ELSE rule
      score   == Clamp100(merged)
  IN  [score    |-> score,
       level    |-> getRiskLevel(score),
       detected |-> HateTierMatch(m) \/ mlScore > 30 * Scale]

\* ------------------------------------------------------------------------
\* Harassment
\* ------------------------------------------------------------------------

directThreats ==
  << P1(<<{"i"}, {"will"}, {"hurt", "harm", "kill", "attack", "destroy"}, {"you"}>>),
     P1(<<{"you"}, {"will"}, {"pay", "suffer", "regret"}>>),
     P1(<<{"i"}, {"am"}, {"going"}, {"to"}, {"hurt", "harm", "kill", "attack"}, {"you"}>>) >>

stalking ==
  << P1(<<{"i"}, {"know"}, {"where"}, {"you"}, {"live", "work", "go"}>>),
     P1(<<{"i"}, {"am"}, {"watching"}, {"you"}>>),
     << <<{"i"}, {"see"}, {"you"}, {"everywhere"}>>,
        <<{"i"}, {"see"}, {"you"}, {"all"}, {"the"}, {"time"}>> >>,
     P1(<<{"i"}, {"follow"}, {"you"}>>) >>

\* The last pattern needs the word can't, which preprocessText splits.
intimidation ==
  << P1(<<{"watch"}, {"your"}, {"back", "step"}>>),
     << <<{"you"}, {"better"}, {"watch"}, {"out"}>>,
        <<{"you"}, {"better"}, {"be"}, {"careful"}>> >>,
     P1(<<{"i"}, {"will"}, {"find"}, {"you"}>>),
     P1(<<{"you"}, {"can't"}, {"hide"}>>) >>

cyberbullying ==
  << P1(<<{"everyone"}, {"hates"}, {"you"}>>),
     P1(<<{"nobody"}, {"likes", "loves"}, {"you"}>>),
     << <<{"you"}, {"should"}, {"kill"}, {"yourself"}>>, <<{"you"}, {"should"}, {"die"}>> >>,
     P1(<<{"you"}, {"are"}, {"worthless", "useless", "pathetic"}>>) >>

\* The loops of analyzeHarassment over the four tiers.
HarassmentMatches(text) ==
  [directThreats |-> CountMatches(directThreats, text),
   stalking      |-> CountMatches(stalking, text),
   intimidation  |-> CountMatches(intimidation, text),
   cyberbullying |-> CountMatches(cyberbullying, text)]

\* analyzeHarassment
analyzeHarassment(m, ctx, intent) ==
  LET s0 == (45 * m.directThreats + 35 * m.stalking + 25 * m.intimidation
               + 30 * m.cyberbullying) * Scale
      s1 == IF ctx.isSarcastic \/ ctx.isIronic THEN Times(s0, 2, 10) ELSE s0
      s2 == IF intent.isThreatening THEN Times(s1, 14, 10) ELSE s1
      score == Clamp100(s2)
  IN  [score    |-> score,
       level    |-> getRiskLevel(score),
       detected |-> m.directThreats + m.stalking + m.intimidation + m.cyberbullying > 0]

\* ------------------------------------------------------------------------
\* ToxicityAnalyzer
\* ------------------------------------------------------------------------

Min2(a, b) == IF a < b THEN a ELSE b

Max2(a, b) == IF a > b THEN a ELSE b

\* Number of occurrences of the word w in the text.
Occurrences(text, w) == Cardinality({i \in 1..Len(text.toks) : text.toks[i].w = w})

\* Number of entries of the list ws (with repetitions) the text includes.
CountIncluded(ws, text) == Cardinality({i \in 1..Len(ws) : includes(text, ws[i])})

\* this.toxicityKeywords (disgusting is listed twice)
toxicityKeywords ==
  << "toxic", "poison", "venom", "hate", "disgusting", "revolting",
     "pathetic", "worthless", "useless", "garbage", "trash",
     "annoying", "irritating", "infuriating", "disgusting" >>

\* this.toxicityPatterns: regex objects made once, in the constructor, all
\* with the g flag, so each keeps its lastIndex from one test to the next.
toxicityPatterns ==
  << << <<{"you"}, {"are"}, {"so"}, {"stupid", "dumb", "idiot", "moron"}>>,
        <<{"you"}, {"are"}, {"stupid", "dumb", "idiot", "moron"}>> >>,
     P1(<<{"i"}, {"hate"}, {"you"}>>),
     P1(<<{"you"}, {"suck"}>>),
     P1(<<{"go"}, {"away"}>>),
     P1(<<{"shut"}, {"up"}>>),
     P1(<<{"nobody"}, {"cares"}>>),
     P1(<<{"you"}, {"are"}, {"worthless"}>>),
     P1(<<{"you"}, {"are"}, {"garbage"}>>) >>

\* ToxicityAnalyzer.analyzeKeywords
analyzeKeywords(text) == Min2(10 * CountIncluded(toxicityKeywords, text), 40)

\* ToxicityAnalyzer.analyzePatterns with the patterns' lastIndex values li:
\* the score, and the lastIndex values the tests leave behind.
analyzePatterns(text, li) ==
  LET r == [i \in 1..Len(toxicityPatterns) |->
              RegExpTest(toxicityPatterns[i], text, li[i])]
  IN  [score     |-> Min2(15 * Cardinality({i \in 1..Len(toxicityPatterns) : r[i].matched}), 30),
       lastIndex |-> [i \in 1..Len(toxicityPatterns) |-> r[i].lastIndex]]

\* ToxicityAnalyzer.analyzeSentiment (the fifth pattern needs the word
\* can't, which preprocessText splits; the text has no ! and no ? left)
toxNegativeWords ==
  << "hate", "dislike", "terrible", "awful", "horrible", "disgusting",
     "annoying", "irritating", "frustrating", "angry", "mad", "upset" >>

toxNegativePatterns ==
  << P1(<<{"i"}, {"hate"}>>), P1(<<{"i"}, {"dislike"}>>),
     P1(<<{"this"}, {"is"}, {"terrible"}>>), P1(<<{"this"}, {"is"}, {"awful"}>>),
     P1(<<{"i"}, {"can't"}, {"stand"}>>) >>

analyzeSentiment(text) ==
  Min2(5 * CountIncluded(toxNegativeWords, text)
         + 10 * CountMatches(toxNegativePatterns, text)
         + (IF exclamationCount(text) > 3 THEN 5 ELSE 0)
         + (IF Occurrences(text, "?") > 3 THEN 3 ELSE 0),
       20)

\* ToxicityAnalyzer.analyzeAggression (the fourth pattern needs let's)
aggressiveWords ==
  << "attack", "fight", "destroy", "kill", "hurt", "harm",
     "violence", "aggressive", "hostile", "combative" >>

aggressivePatterns ==
  << P1(<<{"i"}, {"will"}, {"hurt", "harm", "attack"}>>),
     P1(<<{"you"}, {"deserve"}, {"to"}, {"die", "suffer"}>>),
     P1(<<{"i"}, {"want"}, {"to"}, {"hurt", "harm"}>>),
     P1(<<{"let's"}, {"fight"}>>) >>

analyzeAggression(text) ==
  Min2(15 * CountIncluded(aggressiveWords, text)
         + 20 * CountMatches(aggressivePatterns, text),
       30)

\* The scores ToxicityAnalyzer.analyze takes from the text alone.
ToxicityMatches(text) ==
  [keywordScore    |-> analyzeKeywords(text),
   sentimentScore  |-> analyzeSentiment(text),
   aggressionScore |-> analyzeAggression(text)]

\* ToxicityAnalyzer.analyze: patternScore is the result of analyzePatterns,
\* which ran before the classifier call; outcome is that call's outcome.
ToxicityAnalyze(m, patternScore, outcome) ==
  LET rules   == m.keywordScore + patternScore
      mlScore == getMLToxicityScore(outcome)
      merged  == IF rules > mlScore THEN rules ELSE mlScore
  IN  Min2(merged + m.sentimentScore + m.aggressionScore, 100)

\* TextAnalysisService.analyzeToxicity
analyzeToxicity(m, ctx, intent, patternScore, outcome) ==
  LET s0 == ToxicityAnalyze(m, patternScore, outcome) * Scale
      s1 == IF ctx.isSarcastic \/ ctx.isIronic THEN Times(s0, 4, 10) ELSE s0
      s2 == IF ctx.isPlayful \/ ctx.isFriendly THEN Times(s1, 3, 10) ELSE s1
      toxicityScore == IF intent.isAggressive \/ intent.isHostile
                       THEN Times(s2, 13, 10) ELSE s2
  IN  [score    |-> Clamp100(toxicityScore),
       level    |-> getRiskLevel(toxicityScore),
       detected |-> toxicityScore > 40 * Scale]

\* ------------------------------------------------------------------------
\* ProfanityFilter
\* ------------------------------------------------------------------------

\* The word list of the filter: customProfanityList, added to the list of
\* the bad-words package.  The package's own words are left out: none of
\* them is a word of the phrases.
customProfanityList == << "stupid", "idiot", "moron", "dumb", "retard" >>

\* filter.isProfane: some word of the list occurs as a whole word.
isProfane(text) ==
  \E i \in 1..Len(customProfanityList) : includes(text, customProfanityList[i])

\* countRepeatedProfanity
countRepeatedProfanity(text) ==
  LET extra(i) == LET n == Occurrences(text, customProfanityList[i])
                  IN  IF n > 1 THEN n - 1 ELSE 0
      RECURSIVE Sum(_)
      Sum(i) == IF i = 0 THEN 0 ELSE extra(i) + Sum(i - 1)
  IN  Sum(Len(customProfanityList))

\* calculateIntensityScore
intensityMap ==
  << <<"damn", 5>>, <<"hell", 5>>, <<"crap", 5>>,
     <<"stupid", 10>>, <<"idiot", 10>>, <<"moron", 10>>,
     <<"fuck", 20>>, <<"shit", 15>>, <<"bitch", 15>>,
     <<"cunt", 25>>, <<"nigger", 30>>, <<"faggot", 25>> >>

calculateIntensityScore(text) ==
  LET RECURSIVE Sum(_)
      Sum(i) == IF i = 0 THEN 0
                ELSE (IF includes(text, intensityMap[i][1]) THEN intensityMap[i][2] ELSE 0)
                       + Sum(i - 1)
  IN  Min2(Sum(Len(intensityMap)), 30)

\* calculateContextScore.  AnyWord stands for \w+.  A profane text has
\* letters and is in lower case, so it differs from its upper case; and it
\* has no exclamation mark left.
AnyWord ==
  UNION {{toLowerCase(t[k]) : k \in 1..Len(t)} : t \in Texts} \ Punctuation

directedPatterns ==
  << P1(<<{"you"}, AnyWord>>), P1(<<{"fuck"}, {"you"}>>),
     P1(<<{"go"}, {"to"}, {"hell"}>>), P1(<<{"you"}, {"are"}, AnyWord>>) >>

calculateContextScore(text) ==
  Min2(10 * CountMatches(directedPatterns, text)
         + (IF exclamationCount(text) >= 2 /\ isProfane(text) THEN 5 ELSE 0),
       20)

\* ProfanityFilter.analyze
ProfanityAnalyze(text) ==
  IF ~isProfane(text) THEN 0
  ELSE Min2(30 + 10 * CountIncluded(customProfanityList, text)
              + 5 * countRepeatedProfanity(text)
              + calculateIntensityScore(text)
              + calculateContextScore(text),
            100)

\* analyzeProfanity with a detection threshold of 75 for 25.
analyzeProfanity_DetectAbove75(profanity, ctx) ==
  LET s0 == profanity * Scale
      s1 == IF ctx.isSarcastic \/ ctx.isIronic THEN Times(s0, 3, 10) ELSE s0
      s2 == IF ctx.isPlayful \/ ctx.isFriendly THEN Times(s1, 4, 10) ELSE s1
      profanityScore == IF ctx.isEducational \/ ctx.isHistorical
                        THEN Times(s2, 1, 10) ELSE s2
  IN  [score    |-> Clamp100(profanityScore),
       level    |-> getRiskLevel(profanityScore),
       detected |-> profanityScore > 75 * Scale]

\* TextAnalysisService.analyzeProfanity; profanity is the result of
\* profanityFilter.analyze.
analyzeProfanity(profanity, ctx) ==
  LET s0 == profanity * Scale
      s1 == IF ctx.isSarcastic \/ ctx.isIronic THEN Times(s0, 3, 10) ELSE s0
      s2 == IF ctx.isPlayful \/ ctx.isFriendly THEN Times(s1, 4, 10) ELSE s1
      profanityScore == IF ctx.isEducational \/ ctx.isHistorical
                        THEN Times(s2, 1, 10) ELSE s2
  IN  [score    |-> Clamp100(profanityScore),
       level    |-> getRiskLevel(profanityScore),
       detected |-> profanityScore > 25 * Scale]

\* ------------------------------------------------------------------------
\* SentimentAnalyzer
\* ------------------------------------------------------------------------

positiveWords == {"good", "great", "excellent", "wonderful", "amazing", "love", "like"}

negativeWords == {"bad", "terrible", "awful", "horrible", "hate", "dislike", "angry"}

\* The sum SentimentAnalyzer.analyze forms: -10 for each positive word,
\* +15 for each negative word, 5 for each exclamation mark when there are
\* more than 2.
SentimentSum(text) ==
  LET ws == Words(text)
      RECURSIVE Sum(_)
      Sum(i) == IF i = 0 THEN 0
                ELSE (IF ws[i] \in positiveWords THEN -10 ELSE 0)
                       + (IF ws[i] \in negativeWords THEN 15 ELSE 0)
                       + Sum(i - 1)
      n  == exclamationCount(text)
  IN  Sum(Len(ws)) + (IF n > 2 THEN 5 * n ELSE 0)

\* SentimentAnalyzer.analyze; sum is the sum above.
SentimentAnalyze(sum) ==
  LET score == sum * Scale
  IN  [score    |-> Clamp100(score),
       level    |-> getRiskLevel(score),
       detected |-> score > 20 * Scale]

\* ------------------------------------------------------------------------
\* Configuration
\* ------------------------------------------------------------------------

\* PLUGIN_CONFIG.DEFAULT_THRESHOLDS: the default blocking thresholds.
DEFAULT_THRESHOLDS ==
  [HATE_SPEECH |-> 70, TOXICITY |-> 60, HARASSMENT |-> 65, PROFANITY |-> 50]

\* ------------------------------------------------------------------------
\* Risk aggregator
\* ------------------------------------------------------------------------

\* The factors of calculateOverallRisk as fractions: 0.4 = 2/5, 0.3 = 3/10,
\* 1.3 = 13/10.
SarcasmRiskFactor == [n |-> 2, d |-> 5]

EducationalRiskFactor == [n |-> 3, d |-> 10]

ThreatRiskFactor == [n |-> 13, d |-> 10]

\* AdjustedRisk with the weights of harassment and toxicity exchanged.
AdjustedRisk_WeightsSwapped(hateSpeech, toxicity, harassment, profanity, sentiment, ctx, intent) ==
  LET weightedScore == hateSpeech * 35 + harassment * 20 + toxicity * 25
                         + profanity * 15 + sentiment * 5
      f1 == IF ctx.isSarcastic \/ ctx.isIronic
            THEN SarcasmRiskFactor ELSE [n |-> 1, d |-> 1]
      f2 == IF ctx.isEducational \/ ctx.isHistorical
            THEN EducationalRiskFactor ELSE [n |-> 1, d |-> 1]
      f3 == IF intent.isThreatening \/ intent.isAggressive
            THEN ThreatRiskFactor ELSE [n |-> 1, d |-> 1]
  IN  [n |-> weightedScore * f1.n * f2.n * f3.n, d |-> f1.d * f2.d * f3.d]

\* AdjustedRisk with the sentiment term subtracted.
AdjustedRisk_SentimentSubtracted(hateSpeech, toxicity, harassment, profanity, sentiment, ctx, intent) ==
  LET weightedScore == hateSpeech * 35 + harassment * 25 + toxicity * 20
                         + profanity * 15 - sentiment * 5
      f1 == IF ctx.isSarcastic \/ ctx.isIronic
            THEN SarcasmRiskFactor ELSE [n |-> 1, d |-> 1]
      f2 == IF ctx.isEducational \/ ctx.isHistorical
            THEN EducationalRiskFactor ELSE [n |-> 1, d |-> 1]
      f3 == IF intent.isThreatening \/ intent.isAggressive
            THEN ThreatRiskFactor ELSE [n |-> 1, d |-> 1]
  IN  [n |-> weightedScore * f1.n * f2.n * f3.n, d |-> f1.d * f2.d * f3.d]

\* AdjustedRisk with the test for sarcasm or irony negated.
AdjustedRisk_SarcasmInverted(hateSpeech, toxicity, harassment, profanity, sentiment, ctx, intent) ==
  LET weightedScore == hateSpeech * 35 + harassment * 25 + toxicity * 20
                         + profanity * 15 + sentiment * 5
      f1 == IF ~(ctx.isSarcastic \/ ctx.isIronic)
            THEN SarcasmRiskFactor ELSE [n |-> 1, d |-> 1]
      f2 == IF ctx.isEducational \/ ctx.isHistorical
            THEN EducationalRiskFactor ELSE [n |-> 1, d |-> 1]
      f3 == IF intent.isThreatening \/ intent.isAggressive
            THEN ThreatRiskFactor ELSE [n |-> 1, d |-> 1]
  IN  [n |-> weightedScore * f1.n * f2.n * f3.n, d |-> f1.d * f2.d * f3.d]

\* adjustedScore of calculateOverallRisk as the fraction n / d, in units
\* of 1/(100 * Scale): the weights are in percent.
AdjustedRisk(hateSpeech, toxicity, harassment, profanity, sentiment, ctx, intent) ==
  LET weightedScore == hateSpeech * 35 + harassment * 25 + toxicity * 20
                         + profanity * 15 + sentiment * 5
      f1 == IF ctx.isSarcastic \/ ctx.isIronic
            THEN SarcasmRiskFactor ELSE [n |-> 1, d |-> 1]
      f2 == IF ctx.isEducational \/ ctx.isHistorical
            THEN EducationalRiskFactor ELSE [n |-> 1, d |-> 1]
      f3 == IF intent.isThreatening \/ intent.isAggressive
            THEN ThreatRiskFactor ELSE [n |-> 1, d |-> 1]
  IN  [n |-> weightedScore * f1.n * f2.n * f3.n, d |-> f1.d * f2.d * f3.d]

\* adjustedScore >= threshold
AtLeast(adjusted, threshold) == adjusted.n >= threshold * 100 * Scale * adjusted.d

\* calculateOverallRisk
calculateOverallRisk(hateSpeech, toxicity, harassment, profanity, sentiment, ctx, intent) ==
  LET adjustedScore ==
        AdjustedRisk(hateSpeech, toxicity, harassment, profanity, sentiment, ctx, intent)
  IN  IF AtLeast(adjustedScore, 70) THEN "critical"
      ELSE IF AtLeast(adjustedScore, 50) THEN "danger"
      ELSE IF AtLeast(adjustedScore, 30) THEN "warning"
      ELSE "safe"

\* Math.floor(Math.sqrt(x)) for 0 <= x < 20000 * 20000
Isqrt(x) ==
  LET RECURSIVE Search(_, _)
      Search(lo, hi) ==
        IF lo = hi THEN lo
        ELSE LET mid == (lo + hi + 1) \div 2
             IN  IF mid * mid <= x THEN Search(mid, hi) ELSE Search(lo, mid - 1)
  IN  Search(0, 20000)

Abs(x) == IF x < 0 THEN -x ELSE x

\* stdDev of calculateConfidence in hundredths, rounded down.  With
\* d[i] = |5 * scores[i] - sum| (units of 1/(5 * Scale)) the variance is
\* (SUM d[i]^2) / (5 * (5 * Scale)^2), so (100 * stdDev)^2 =
\* (SUM d[i]^2) / 3125; the squares are summed in three parts
\* (d = 1000 * q + r) to stay below 2^31.
StdDev100(scores) ==
  LET sum  == scores[1] + scores[2] + scores[3] + scores[4] + scores[5]
      d(i) == Abs(5 * scores[i] - sum)
      q(i) == d(i) \div 1000
      r(i) == d(i) % 1000
      p1   == q(1) * q(1) + q(2) * q(2) + q(3) * q(3) + q(4) * q(4) + q(5) * q(5)
      p2   == 2 * (q(1) * r(1) + q(2) * r(2) + q(3) * r(3) + q(4) * r(4) + q(5) * r(5))
      p3   == r(1) * r(1) + r(2) * r(2) + r(3) * r(3) + r(4) * r(4) + r(5) * r(5)
  IN  Isqrt(320 * p1 + (8 * p2) \div 25 + (((8 * p2) % 25) * 125 + p3) \div 3125)

\* ConfidenceOf without Math.min(confidence, 100).
ConfidenceOf_NoClamp(stdDev100, ctx, intent) ==
  LET base == IF 2 * stdDev100 < 10000 THEN 10000 - 2 * stdDev100 ELSE 0
      n1 == IF ctx.isSarcastic \/ ctx.isIronic THEN base * 7 ELSE base * 10
      n2 == IF ctx.isEducational \/ ctx.isHistorical THEN n1 * 8 ELSE n1 * 10
      n3 == IF intent.isClear THEN n2 * 11 ELSE n2 * 10
      d  == 100 * 1000
  IN  (2 * n3 + d) \div (2 * d)

\* Math.round(Math.min(confidence, 100)), where confidence is
\* Math.max(0, 100 - 2 * stdDev) * 0.7 * 0.8 * 1.1 with the factors that
\* apply; stdDev100 is stdDev in hundredths.
ConfidenceOf(stdDev100, ctx, intent) ==
  LET base == IF 2 * stdDev100 < 10000 THEN 10000 - 2 * stdDev100 ELSE 0
      n1 == IF ctx.isSarcastic \/ ctx.isIronic THEN base * 7 ELSE base * 10
      n2 == IF ctx.isEducational \/ ctx.isHistorical THEN n1 * 8 ELSE n1 * 10
      n3 == IF intent.isClear THEN n2 * 11 ELSE n2 * 10
      d  == 100 * 1000
  IN  IF n3 >= 100 * d THEN 100 ELSE (2 * n3 + d) \div (2 * d)

\* calculateConfidence, stdDev taken to 1/100, rounded down.
calculateConfidence(scores, ctx, intent) ==
  ConfidenceOf(StdDev100(scores), ctx, intent)

\* ------------------------------------------------------------------------
\* TextAnalysisService.analyzeText
\* ------------------------------------------------------------------------

allKeywords == {"hate", "kill", "destroy", "racist", "sexist", "harass", "bully", "threaten"}

\* [...new Set(seq)]: the first occurrence of every element, in order.
RECURSIVE Dedup(_)
Dedup(seq) ==
  IF seq = <<>> THEN <<>>
  ELSE LET init == Dedup(SubSeq(seq, 1, Len(seq) - 1))
           x    == seq[Len(seq)]
       IN  IF \E i \in 1..Len(init) : init[i] = x THEN init ELSE Append(init, x)

\* extractFlaggedWords: the words that contain a keyword, without repeats.
extractFlaggedWords(text) ==
  Dedup(SelectSeq(Words(text), LAMBDA w : w \in allKeywords))

\* Everything analyzeText takes from the request text itself: the
\* preprocessed text, the signals and the matches of the detectors (all
\* but analyzePatterns, whose result depends on lastIndex as well).
AnalyzeRequest(raw) ==
  LET text == preprocessText(raw)
  IN  [text         |-> text,
       context      |-> ContextAnalyzer(text),
       intent       |-> IntentAnalyzer(text),
       hateSpeech   |-> HateMatches(text),
       toxicity     |-> ToxicityMatches(text),
       harassment   |-> HarassmentMatches(text),
       profanity    |-> ProfanityAnalyze(text),
       sentiment    |-> SentimentSum(text),
       flaggedWords |-> extractFlaggedWords(text)]

\* AnalyzeRequest of every request text (evaluated once).
Request == [raw \in Texts |-> AnalyzeRequest(raw)]

\* The report analyzeText builds (lines 59-105) from the results of the
\* five detectors and the signals.
BuildReport(flaggedWords, ctx, intent, hateSpeech, toxicity, harassment, profanity, sentiment) ==
  [hateSpeech   |-> hateSpeech,
   toxicity     |-> toxicity,
   harassment   |-> harassment,
   profanity    |-> profanity,
   sentiment    |-> sentiment,
   context      |-> ctx,
   intent       |-> intent,
   overallRisk  |-> calculateOverallRisk(hateSpeech.score, toxicity.score,
                      harassment.score, profanity.score, sentiment.score, ctx, intent),
   confidence   |-> calculateConfidence(<<hateSpeech.score, toxicity.score,
                      harassment.score, profanity.score, sentiment.score>>, ctx, intent),
   flaggedWords |-> flaggedWords]

\* analyzeText on the matches rq of a request under the signals ctx and
\* intent: the five detectors (Promise.all) and the report.  patternScore
\* is what analyzePatterns returned; hateML and toxML are the outcomes of
\* the two classifier calls.
Analysis(rq, ctx, intent, patternScore, hateML, toxML) ==
  BuildReport(rq.flaggedWords, ctx, intent,
              analyzeHateSpeech(rq.hateSpeech, ctx, intent, hateML),
              analyzeToxicity(rq.toxicity, ctx, intent, patternScore, toxML),
              analyzeHarassment(rq.harassment, ctx, intent),
              analyzeProfanity(rq.profanity, ctx),
              SentimentAnalyze(rq.sentiment))

\* The report of analyzeText for the request text raw.
analyzeText(raw, patternScore, hateML, toxML) ==
  Analysis(Request[raw], Request[raw].context, Request[raw].intent,
           patternScore, hateML, toxML)

\* n times the message s.
Repeat(n, s) == [i \in 1..n |-> s]

\* The message s if cond.
When(cond, s) == IF cond THEN <<s>> ELSE <<>>

\* reasoning of analyzeHateSpeech: a message for every pattern that
\* matches, then one for every factor applied and for the classifier.
hateSpeechReasoning(m, ctx, intent, outcome) ==
  Repeat(m.directHate, "Direct hate speech pattern detected")
    \o Repeat(m.indirectHate, "Indirect hate speech pattern detected")
    \o Repeat(m.dehumanizing, "Dehumanizing language detected")
    \o When(ctx.isSarcastic \/ ctx.isIronic, "Score reduced due to sarcastic/ironic context")
    \o When(ctx.isEducational \/ ctx.isHistorical, "Score reduced due to educational context")
    \o When(intent.isThreatening, "Score increased due to threatening intent")
    \o When(getMLHateSpeechScore(outcome) * Scale > HateRuleScore(m, ctx, intent),
            "ML model detected higher hate speech score")

\* reasoning of analyzeToxicity
toxicityReasoning(ctx, intent) ==
  When(ctx.isSarcastic \/ ctx.isIronic, "Toxicity score reduced due to sarcastic context")
    \o When(ctx.isPlayful \/ ctx.isFriendly, "Toxicity score reduced due to playful context")
    \o When(intent.isAggressive \/ intent.isHostile,
            "Toxicity score increased due to aggressive intent")

\* reasoning of analyzeHarassment
harassmentReasoning(m, ctx, intent) ==
  Repeat(m.directThreats, "Direct threat pattern detected")
    \o Repeat(m.stalking, "Stalking behavior pattern detected")
    \o Repeat(m.intimidation, "Intimidation pattern detected")
    \o Repeat(m.cyberbullying, "Cyberbullying pattern detected")
    \o When(ctx.isSarcastic \/ ctx.isIronic, "Harassment score reduced due to sarcastic context")
    \o When(intent.isThreatening, "Harassment score increased due to threatening intent")

\* reasoning of analyzeProfanity
profanityReasoning(ctx) ==
  When(ctx.isSarcastic \/ ctx.isIronic, "Profanity score reduced due to sarcastic context")
    \o When(ctx.isPlayful \/ ctx.isFriendly, "Profanity score reduced due to playful context")
    \o When(ctx.isEducational \/ ctx.isHistorical,
            "Profanity score reduced due to educational context")

\* generateReasoning on the reasoning of the four detectors.
generateReasoning(hateSpeech, toxicity, harassment, profanity) ==
  Dedup(hateSpeech \o toxicity \o harassment \o profanity)

\* analysis.reasoning of the report of analyzeText for the request text raw.
Reasoning(raw, hateML) ==
  LET rq == Request[raw]
  IN  generateReasoning(hateSpeechReasoning(rq.hateSpeech, rq.context, rq.intent, hateML),
                        toxicityReasoning(rq.context, rq.intent),
                        harassmentReasoning(rq.harassment, rq.context, rq.intent),
                        profanityReasoning(rq.context))

\* ------------------------------------------------------------------------
\* The service: one TextAnalysisService and its callers
\* ------------------------------------------------------------------------

VARIABLES
  lastIndex,  \* lastIndex of each regex of toxicityAnalyzer.toxicityPatterns
  cur,        \* the analyzeText call in progress, or the one just returned
  prev,       \* the call before cur, when cur repeats its request (Again)
  agg,        \* a call of the risk aggregator on its own (SpecAgg)
  fault,      \* the component that threw during the call cur, or "none"
  image,      \* a call of ImageAnalysisService.analyzeImage (SpecImage)
  limiter,    \* a RateLimiter: its store, and the clock Date.now() reads
  http,       \* the request the server answered last, and what it answered
  retry,      \* a call of PluginHelpers.retryWithBackoff (SpecRetry)
  block       \* a call of the two shouldBlockContent (SpecBlock)

\* The variables of the analysis services.
analysisVars == << lastIndex, cur, prev, agg, fault, image >>

\* The variables of the web server and of the helpers.
webVars == << limiter, http, retry, block >>

\* The variables of the helpers.
helperVars == << retry, block >>

vars == << lastIndex, cur, prev, agg, fault, image, limiter, http, retry, block >>

NoCall ==
  [pc |-> "idle", text |-> <<>>, patternScore |-> 0, hateML |-> Pending, toxML |-> Pending]

NoPrev == [valid |-> FALSE, patternScore |-> 0, hateML |-> Pending, toxML |-> Pending]

AllFalse ==
  [context |-> [isSarcastic |-> FALSE, isIronic |-> FALSE, isPlayful |-> FALSE,
                isFriendly |-> FALSE, isEducational |-> FALSE,
                isHistorical |-> FALSE, isFormal |-> FALSE],
   intent  |-> [isThreatening |-> FALSE, isAggressive |-> FALSE, isHostile |-> FALSE,
                isClear |-> FALSE, isConstructive |-> FALSE]]

NoAgg ==
  [called |-> FALSE, scores |-> <<0, 0, 0, 0, 0>>, context |-> AllFalse.context,
   intent |-> AllFalse.intent, overallRisk |-> "safe", confidence |-> 0,
   raised |-> 0, before |-> "safe"]

\* A missing description: what combineImageAndTextAnalysis gets for
\* textAnalysis.
Null == [null |-> TRUE]

NoImage ==
  [called |-> FALSE, visionFailed |-> FALSE, imageAnalysis |-> Null,
   textAnalysis |-> Null, analysis |-> Null]

\* The client keys getKey returns (req.ip).
Keys == {"10.0.0.1", "10.0.0.2"}

\* No entry of the store under a key.
NoEntry == [present |-> FALSE, count |-> 0, resetTime |-> 0]

\* A new RateLimiter: an empty store; the clock starts at 0.
NewLimiter == [store |-> [key \in Keys |-> NoEntry], now |-> 0]

\* What an observer has counted for a key: the window its last request
\* belongs to (begun by the request at start, ending at reset), the
\* requests of the key in that window, those of them passed on, and the
\* status of its last request.
NoWindow == [open |-> FALSE, start |-> 0, reset |-> 0, seen |-> 0, passed |-> 0, status |-> 0]

\* The analysis requests of a key counted from the one at start, for one
\* minute.
NoMinute == [start |-> 0, requests |-> 0]

\* No request answered yet.
NoRequest ==
  [called |-> FALSE, key |-> "", method |-> "", path |-> <<>>, status |-> 0,
   remaining |-> 0, reset |-> 0, retryAfter |-> 0, handler |-> "",
   before  |-> NoWindow,
   window  |-> [key \in Keys |-> NoWindow],
   minute  |-> [key \in Keys |-> NoMinute]]

\* retryWithBackoff is not running.
NoRetry ==
  [pc |-> "idle", maxRetries |-> 0, baseDelay |-> 0, attempt |-> 0, lastError |-> 0,
   result |-> 0, calls |-> <<>>, delays |-> <<>>]

\* No reason: the property is missing or undefined.
NoReason == [defined |-> FALSE, text |-> ""]

\* shouldBlockContent has not been called.
NoBlock ==
  [called |-> FALSE,
   results |-> [hateSpeech |-> [score |-> 0], toxicity |-> [score |-> 0],
                harassment |-> [score |-> 0], profanity |-> [score |-> 0],
                overallRisk |-> "safe"],
   thresholds |-> [hateSpeech |-> 0, toxicity |-> 0, harassment |-> 0, profanity |-> 0],
   helpers |-> [shouldBlock |-> FALSE, reason |-> NoReason],
   plugin  |-> [shouldBlock |-> FALSE, reason |-> NoReason, riskLevel |-> "safe"]]

\* A new TextAnalysisService: the constructor of ToxicityAnalyzer makes the
\* regexes, with lastIndex 0.
Init ==
  /\ lastIndex = [i \in 1..Len(toxicityPatterns) |-> 0]
  /\ cur = NoCall
  /\ prev = NoPrev
  /\ agg = NoAgg
  /\ fault = "none"
  /\ image = NoImage
  /\ limiter = NewLimiter
  /\ http = NoRequest
  /\ retry = NoRetry
  /\ block = NoBlock

\* analyzeText up to the awaits on the two axios.post calls:
\* preprocessing, the classifiers of context and intent, the hate speech
\* rules, and analyzeKeywords and analyzePatterns of the toxicity analyzer,
\* whose tests move lastIndex.
Begin(raw) ==
  LET r == analyzePatterns(Request[raw].text, lastIndex)
  IN  /\ lastIndex' = r.lastIndex
      /\ cur' = [pc |-> "awaiting", text |-> raw, patternScore |-> r.score,
                 hateML |-> Pending, toxML |-> Pending]

\* analyzeText is called with request text raw.
Start(raw) ==
  /\ cur.pc = "idle"
  /\ Begin(raw)
  /\ prev' = NoPrev
  /\ UNCHANGED << agg, fault, image, webVars >>

\* The caller of the call that has just returned calls analyzeText again,
\* with the same request, and keeps the first report to compare.
Again ==
  /\ cur.pc = "done"
  /\ ~prev.valid
  /\ Begin(cur.text)
  /\ prev' = [valid |-> TRUE, patternScore |-> cur.patternScore,
              hateML |-> cur.hateML, toxML |-> cur.toxML]
  /\ UNCHANGED << agg, fault, image, webVars >>

\* The hate speech classifier answers with score.
HateMLAnswers(score) ==
  /\ cur.pc = "awaiting"
  /\ cur.hateML = Pending
  /\ cur' = [cur EXCEPT !.hateML = Answer(score)]
  /\ UNCHANGED << lastIndex, prev, agg, fault, image, webVars >>

\* The request to the hate speech classifier fails (axios.post rejects).
HateMLFails ==
  /\ cur.pc = "awaiting"
  /\ cur.hateML = Pending
  /\ cur' = [cur EXCEPT !.hateML = MLFail]
  /\ UNCHANGED << lastIndex, prev, agg, fault, image, webVars >>

\* The toxicity classifier answers with score.
ToxMLAnswers(score) ==
  /\ cur.pc = "awaiting"
  /\ cur.toxML = Pending
  /\ cur' = [cur EXCEPT !.toxML = Answer(score)]
  /\ UNCHANGED << lastIndex, prev, agg, fault, image, webVars >>

\* The request to the toxicity classifier fails.
ToxMLFails ==
  /\ cur.pc = "awaiting"
  /\ cur.toxML = Pending
  /\ cur' = [cur EXCEPT !.toxML = MLFail]
  /\ UNCHANGED << lastIndex, prev, agg, fault, image, webVars >>

\* Both classifier calls are settled: Promise.all resolves, analyzeText
\* builds the report and returns it.  Neither axios.post is given a
\* timeout, so nothing else ends the wait.
Return ==
  /\ cur.pc = "awaiting"
  /\ cur.hateML # Pending
  /\ cur.toxML # Pending
  /\ cur' = [cur EXCEPT !.pc = "done"]
  /\ UNCHANGED << lastIndex, prev, agg, fault, image, webVars >>

\* The caller has its report, or the error analyzeText threw, and the call
\* is over; the service instance
\* stays, with the lastIndex values the call left.
Leave ==
  /\ cur.pc \in {"done", "failed"}
  /\ cur' = NoCall
  /\ prev' = NoPrev
  /\ fault' = "none"
  /\ UNCHANGED << lastIndex, agg, image, webVars >>

\* The report the call cur returned.
Report == analyzeText(cur.text, cur.patternScore, cur.hateML, cur.toxML)

\* The report the call before cur returned (same request text).
PrevReport == analyzeText(cur.text, prev.patternScore, prev.hateML, prev.toxML)

Next ==
  \/ \E raw \in Texts : Start(raw)
  \/ \E score \in MLScores : HateMLAnswers(score)
  \/ HateMLFails
  \/ \E score \in MLScores : ToxMLAnswers(score)
  \/ ToxMLFails
  \/ Return
  \/ Leave

\* The service and its callers, one call after the other.
Spec == Init /\ [][Next]_vars

\* The continuation of analyzeText runs once its promises are settled;
\* nothing obliges a classifier to answer.
FairSpec == Spec /\ WF_vars(Return)

\* Callers that may repeat a request once.
NextRepeat == Next \/ Again

SpecRepeat == Init /\ [][NextRepeat]_vars

\* ------------------------------------------------------------------------
\* Faults: a component of the analysis throws
\* ------------------------------------------------------------------------

\* The steps of analyzeText before the detectors start.
ThrowsBeforeDetectors == {"preprocessText", "contextAnalyzer", "intentAnalyzer"}

\* The detectors whose own code is under the try of analyzeText only.
ThrowsInDetectors == {"analyzeHateSpeech", "analyzeHarassment", "sentimentAnalyzer"}

\* The steps of analyzeText after Promise.all.
ThrowsAfterDetectors == {"calculateOverallRisk", "calculateConfidence"}

\* The analyzers that catch whatever their analyze throws and return 0.
CatchesOwnFaults == {"toxicityAnalyzer", "profanityFilter"}

\* A classifier call that was never made.
Skipped == [status |-> "skipped", score |-> 0]

\* analyzeText is called with raw and component throws before Promise.all
\* settles: the catch of analyzeText throws 'Failed to analyze text
\* content'.  The detectors are all started before Promise.all sees a
\* rejection, so analyzePatterns has run unless the fault came before them.
StartFailing(raw, component) ==
  /\ cur.pc = "idle"
  /\ lastIndex' = IF component \in ThrowsBeforeDetectors THEN lastIndex
                  ELSE analyzePatterns(Request[raw].text, lastIndex).lastIndex
  /\ cur' = [NoCall EXCEPT !.pc = "failed", !.text = raw]
  /\ prev' = NoPrev
  /\ fault' = component
  /\ UNCHANGED << agg, image, webVars >>

\* analyzeText is called with raw and toxicityAnalyzer.analyze or
\* profanityFilter.analyze throws at its beginning: its own catch logs the
\* error and returns 0, and the call goes on.  The toxicity analyzer then
\* neither tests its patterns nor calls its classifier.
StartDefaulting(raw, component) ==
  /\ cur.pc = "idle"
  /\ IF component = "toxicityAnalyzer"
     THEN /\ cur' = [pc |-> "awaiting", text |-> raw, patternScore |-> 0,
                     hateML |-> Pending, toxML |-> Skipped]
          /\ UNCHANGED lastIndex
     ELSE Begin(raw)
  /\ prev' = NoPrev
  /\ fault' = component
  /\ UNCHANGED << agg, image, webVars >>

\* Both classifier calls are settled and calculateOverallRisk or
\* calculateConfidence throws: the catch of analyzeText throws.
ReturnFailing(component) ==
  /\ cur.pc = "awaiting"
  /\ cur.hateML # Pending
  /\ cur.toxML # Pending
  /\ cur' = [cur EXCEPT !.pc = "failed"]
  /\ fault' = component
  /\ UNCHANGED << lastIndex, prev, agg, image, webVars >>

\* The report the call cur returned when a component may have thrown: the
\* result of an analyzer that caught its own fault is 0.
FaultReport ==
  LET rq == Request[cur.text]
  IN  BuildReport(rq.flaggedWords, rq.context, rq.intent,
        analyzeHateSpeech(rq.hateSpeech, rq.context, rq.intent, cur.hateML),
        IF fault = "toxicityAnalyzer"
          THEN analyzeToxicity([keywordScore |-> 0, sentimentScore |-> 0,
                                aggressionScore |-> 0],
                               rq.context, rq.intent, 0, Skipped)
          ELSE analyzeToxicity(rq.toxicity, rq.context, rq.intent,
                               cur.patternScore, cur.toxML),
        analyzeHarassment(rq.harassment, rq.context, rq.intent),
        IF fault = "profanityFilter"
          THEN analyzeProfanity(0, rq.context)
          ELSE analyzeProfanity(rq.profanity, rq.context),
        SentimentAnalyze(rq.sentiment))

NextFault ==
  \/ Next
  \/ \E raw \in Texts, component \in ThrowsBeforeDetectors \cup ThrowsInDetectors :
        StartFailing(raw, component)
  \/ \E raw \in Texts, component \in CatchesOwnFaults : StartDefaulting(raw, component)
  \/ \E component \in ThrowsAfterDetectors : ReturnFailing(component)

\* The service with faults in its components.
SpecFault == Init /\ [][NextFault]_vars

\* ------------------------------------------------------------------------
\* The risk aggregator on its own: calculateOverallRisk and
\* calculateConfidence on scores and signals of any origin
\* ------------------------------------------------------------------------

\* Scores of the hate speech, toxicity, harassment and profanity detectors.
ScoreGrid == {0, 45 * Scale, 100 * Scale}

\* Scores of the sentiment analyzer, which may be negative.
SentimentGrid == {-10 * Scale, 0, 100 * Scale}

\* The category scores in the order hateSpeech, toxicity, harassment,
\* profanity, sentiment.
ScoreVectors ==
  {<<h, t, r, p, s>> : h \in ScoreGrid, t \in ScoreGrid, r \in ScoreGrid,
                       p \in ScoreGrid, s \in SentimentGrid}

\* The context signals the aggregator reads.
Contexts ==
  {[AllFalse.context EXCEPT !.isSarcastic = a, !.isIronic = b,
                            !.isEducational = c, !.isHistorical = d] :
     a \in BOOLEAN, b \in BOOLEAN, c \in BOOLEAN, d \in BOOLEAN}

\* The intent signals the aggregator reads.
Intents ==
  {[AllFalse.intent EXCEPT !.isThreatening = a, !.isAggressive = b, !.isClear = c] :
     a \in BOOLEAN, b \in BOOLEAN, c \in BOOLEAN}

\* overallRisk and confidence as analyzeText computes them from the five
\* category scores and the signals.
Aggregated(scores, ctx, intent, raised, before) ==
  [called      |-> TRUE,
   scores      |-> scores,
   context     |-> ctx,
   intent      |-> intent,
   overallRisk |-> calculateOverallRisk(scores[1], scores[2], scores[3],
                                        scores[4], scores[5], ctx, intent),
   confidence  |-> calculateConfidence(scores, ctx, intent),
   raised      |-> raised,
   before      |-> before]

\* The aggregator runs on some scores under some signals.
Aggregate ==
  /\ ~agg.called
  /\ \E scores \in ScoreVectors, ctx \in Contexts, intent \in Intents :
        agg' = Aggregated(scores, ctx, intent, 0, "safe")
  /\ UNCHANGED << lastIndex, cur, prev, fault, image, webVars >>

\* The aggregator runs again with category score i raised to v and
\* everything else as it was.
Raise(i, v) ==
  /\ agg.called
  /\ agg.raised = 0
  /\ v > agg.scores[i]
  /\ agg' = Aggregated([agg.scores EXCEPT ![i] = v], agg.context, agg.intent,
                       i, agg.overallRisk)
  /\ UNCHANGED << lastIndex, cur, prev, fault, image, webVars >>

NextAgg ==
  \/ Aggregate
  \/ \E i \in 1..5 : \E v \in ScoreGrid \cup SentimentGrid : Raise(i, v)

SpecAgg == Init /\ [][NextAgg]_vars

\* ------------------------------------------------------------------------
\* ImageAnalysisService
\* ------------------------------------------------------------------------

\* What the vision model may say of one category; nothing makes its level
\* and detected agree with its score.
CategoryAnswers ==
  {[score |-> 0, level |-> "low", detected |-> FALSE],
   [score |-> 45 * Scale, level |-> "medium", detected |-> FALSE],
   [score |-> 85 * Scale, level |-> "critical", detected |-> TRUE]}

\* The call of the vision API failed, there is no API key, or the answer
\* holds no JSON.
ApiError == [ok |-> FALSE]

\* The JSON objects in the answers of the vision API.
ApiResponses ==
  {[ok |-> TRUE, hateSpeech |-> h, toxicity |-> t, harassment |-> r, profanity |-> p,
    overallRisk |-> o, confidence |-> c, flaggedElements |-> f, suggestions |-> s] :
     h \in CategoryAnswers, t \in CategoryAnswers,
     r \in {x \in CategoryAnswers : x.score # 45 * Scale},
     p \in {x \in CategoryAnswers : x.score # 45 * Scale},
     o \in {"safe", "danger"}, c \in {0, 85},
     f \in {<<>>, <<"hate", "weapon">>},
     s \in {<<>>, <<"Blur the image">>}}

\* getDefaultAnalysis without its suggestion.
getDefaultAnalysis_NoAdvice ==
  [hateSpeech  |-> [score |-> 0, level |-> "low", detected |-> FALSE],
   toxicity    |-> [score |-> 0, level |-> "low", detected |-> FALSE],
   harassment  |-> [score |-> 0, level |-> "low", detected |-> FALSE],
   profanity   |-> [score |-> 0, level |-> "low", detected |-> FALSE],
   overallRisk |-> "safe",
   confidence  |-> 50,
   flaggedWords |-> <<>>,
   suggestions |-> <<>>]

getDefaultAnalysis ==
  [hateSpeech  |-> [score |-> 0, level |-> "low", detected |-> FALSE],
   toxicity    |-> [score |-> 0, level |-> "low", detected |-> FALSE],
   harassment  |-> [score |-> 0, level |-> "low", detected |-> FALSE],
   profanity   |-> [score |-> 0, level |-> "low", detected |-> FALSE],
   overallRisk |-> "safe",
   confidence  |-> 50,
   flaggedWords |-> <<>>,
   suggestions |-> <<"Unable to analyze image content - manual review recommended">>]

\* analyzeWithOpenAI and parseOpenAIResponse; every field of the responses
\* is present, and confidence || 50 turns 0 into 50.
parseOpenAIResponse(response) ==
  IF ~response.ok THEN getDefaultAnalysis
  ELSE [hateSpeech  |-> response.hateSpeech,
        toxicity    |-> response.toxicity,
        harassment  |-> response.harassment,
        profanity   |-> response.profanity,
        overallRisk |-> response.overallRisk,
        confidence  |-> IF response.confidence = 0 THEN 50 ELSE response.confidence,
        flaggedWords |-> response.flaggedElements,
        suggestions |-> response.suggestions]

\* ImageAnalysisService.calculateOverallRisk, on scores times Scale.
ImageOverallRisk(hateSpeech, toxicity, harassment, profanity) ==
  LET maxScore == Max2(Max2(hateSpeech, toxicity), Max2(harassment, profanity))
      sum      == hateSpeech + toxicity + harassment + profanity
  IN  IF maxScore >= 80 * Scale \/ sum >= 4 * 70 * Scale THEN "critical"
      ELSE IF maxScore >= 60 * Scale \/ sum >= 4 * 50 * Scale THEN "danger"
      ELSE IF maxScore >= 40 * Scale \/ sum >= 4 * 30 * Scale THEN "warning"
      ELSE "safe"

\* One category of the combined analysis, which takes the text score alone.
CombineCategory_TextOnly(imageCategory, textCategory) ==
  [score    |-> textCategory.score,
   level    |-> getRiskLevel(textCategory.score),
   detected |-> imageCategory.detected \/ textCategory.detected]

\* One category of the combined analysis.
CombineCategory(imageCategory, textCategory) ==
  [score    |-> Max2(imageCategory.score, textCategory.score),
   level    |-> getRiskLevel(Max2(imageCategory.score, textCategory.score)),
   detected |-> imageCategory.detected \/ textCategory.detected]

\* combineImageAndTextAnalysis (the suggestions of the two analyses put
\* together left out).
combineImageAndTextAnalysis(imageAnalysis, textAnalysis) ==
  IF textAnalysis = Null THEN imageAnalysis
  ELSE [hateSpeech  |-> CombineCategory(imageAnalysis.hateSpeech, textAnalysis.hateSpeech),
        toxicity    |-> CombineCategory(imageAnalysis.toxicity, textAnalysis.toxicity),
        harassment  |-> CombineCategory(imageAnalysis.harassment, textAnalysis.harassment),
        profanity   |-> CombineCategory(imageAnalysis.profanity, textAnalysis.profanity),
        overallRisk |-> ImageOverallRisk(
                          Max2(imageAnalysis.hateSpeech.score, textAnalysis.hateSpeech.score),
                          Max2(imageAnalysis.toxicity.score, textAnalysis.toxicity.score),
                          Max2(imageAnalysis.harassment.score, textAnalysis.harassment.score),
                          Max2(imageAnalysis.profanity.score, textAnalysis.profanity.score)),
        confidence  |-> (imageAnalysis.confidence + textAnalysis.confidence + 1) \div 2,
        flaggedWords |-> imageAnalysis.flaggedWords \o textAnalysis.flaggedWords]

\* The descriptions of the image requests: one phrase, or a whole text.
Descriptions == {Phrases[i] : i \in 1..Len(Phrases)} \cup Scenarios

\* analyzeImageDescription: analyzeText of a TextAnalysisService made for
\* this call, whose regexes have lastIndex 0; the result is its analysis.
analyzeImageDescription(description, hateML, toxML) ==
  LET r == analyzePatterns(Request[description].text,
                           [i \in 1..Len(toxicityPatterns) |-> 0])
  IN  [reasoning |-> Reasoning(description, hateML)]
        @@ analyzeText(description, r.score, hateML, toxML)

\* analyzeImage of a request without description.
AnalyzeImage ==
  /\ ~image.called
  /\ \E response \in ApiResponses \cup {ApiError} :
       LET imageAnalysis == parseOpenAIResponse(response)
       IN  image' = [called        |-> TRUE,
                     visionFailed  |-> ~response.ok,
                     imageAnalysis |-> imageAnalysis,
                     textAnalysis  |-> Null,
                     analysis      |-> combineImageAndTextAnalysis(imageAnalysis, Null)]
  /\ UNCHANGED << lastIndex, cur, prev, agg, fault, webVars >>

\* analyzeImage of a request with a description; the two classifier calls
\* of the text analysis answer or fail.
AnalyzeImageWithDescription ==
  /\ ~image.called
  /\ \E response \in ApiResponses \cup {ApiError}, description \in Descriptions,
        hateML \in {MLFail, Answer(90)}, toxML \in {MLFail, Answer(90)} :
       LET imageAnalysis == parseOpenAIResponse(response)
           textAnalysis  == analyzeImageDescription(description, hateML, toxML)
       IN  image' = [called        |-> TRUE,
                     visionFailed  |-> ~response.ok,
                     imageAnalysis |-> imageAnalysis,
                     textAnalysis  |-> textAnalysis,
                     analysis      |-> combineImageAndTextAnalysis(imageAnalysis, textAnalysis)]
  /\ UNCHANGED << lastIndex, cur, prev, agg, fault, webVars >>

\* The caller has its result.
LeaveImage ==
  /\ image.called
  /\ image' = NoImage
  /\ UNCHANGED << lastIndex, cur, prev, agg, fault, webVars >>

NextImage == AnalyzeImage \/ AnalyzeImageWithDescription \/ LeaveImage

SpecImage == Init /\ [][NextImage]_vars

\* ------------------------------------------------------------------------
\* RateLimiter
\* ------------------------------------------------------------------------

generalRateLimiter == [windowMs |-> 15 * 60 * 1000, maxRequests |-> 100]

analysisRateLimiter == [windowMs |-> 60 * 1000, maxRequests |-> 10]

strictRateLimiter == [windowMs |-> 60 * 1000, maxRequests |-> 5]

\* The clock moves in steps of half a minute.
TickMs == 30 * 1000

\* The clock stops after this many steps.
MaxTicks == 5

\* A key sends no more than this many requests beyond maxRequests in a
\* window.
MaxOver == 2

\* The entry of the store under key after the first statement of the
\* middleware, with the window moved by every request.
Entry_Sliding(rl, store, key, now) ==
  IF ~store[key].present \/ store[key].resetTime < now
  THEN [present |-> TRUE, count |-> 1, resetTime |-> now + rl.windowMs]
  ELSE [store[key] EXCEPT !.count = @ + 1, !.resetTime = now + rl.windowMs]

\* The entry of the store under key after the first statement of the
\* middleware: a new one if there is none or its resetTime is past, else
\* the old one with one more count.
Entry(rl, store, key, now) ==
  IF ~store[key].present \/ store[key].resetTime < now
  THEN [present |-> TRUE, count |-> 1, resetTime |-> now + rl.windowMs]
  ELSE [store[key] EXCEPT !.count = @ + 1]

\* Math.ceil(ms / 1000) for ms >= 0
CeilSeconds(ms) == (ms + 999) \div 1000

\* The answer of the middleware, with > maxRequests + 1 for > maxRequests.
Respond_OneMore(rl, entry, now) ==
  [remaining  |-> Max2(0, rl.maxRequests - entry.count),
   reset      |-> entry.resetTime,
   retryAfter |-> CeilSeconds(entry.resetTime - now),
   status     |-> IF entry.count > rl.maxRequests + 1 THEN 429 ELSE 0]

\* The answer of the middleware: the headers, and status 429 or, for a call
\* of next(), status 0.
Respond(rl, entry, now) ==
  [remaining  |-> Max2(0, rl.maxRequests - entry.count),
   reset      |-> entry.resetTime,
   retryAfter |-> CeilSeconds(entry.resetTime - now),
   status     |-> IF entry.count > rl.maxRequests THEN 429 ELSE 0]

\* The middleware of the limiter rl on a request of key at time now.
middleware(rl, store, key, now) ==
  LET entry == Entry(rl, store, key, now)
  IN  [store    |-> [store EXCEPT ![key] = entry],
       response |-> Respond(rl, entry, now)]

\* cleanup deleting the entries whose resetTime is now, too.
cleanup_AtReset(store, now) ==
  [key \in DOMAIN store |->
     IF store[key].present /\ store[key].resetTime <= now THEN NoEntry ELSE store[key]]

\* cleanup: the entries whose resetTime is past are deleted.
cleanup(store, now) ==
  [key \in DOMAIN store |->
     IF store[key].present /\ store[key].resetTime < now THEN NoEntry ELSE store[key]]

\* What the observer counts for a request at now whose status is status:
\* the request is of the window it has open for the key unless it comes
\* after that window's reset time.
Observe(rl, window, now, status) ==
  LET pass == IF status = 0 THEN 1 ELSE 0
  IN  IF ~window.open \/ now > window.reset
      THEN [open |-> TRUE, start |-> now, reset |-> now + rl.windowMs,
            seen |-> 1, passed |-> pass, status |-> status]
      ELSE [window EXCEPT !.seen = @ + 1, !.passed = @ + pass, !.status = status]

\* Time passes.
Tick ==
  /\ limiter.now + TickMs <= MaxTicks * TickMs
  /\ limiter' = [limiter EXCEPT !.now = @ + TickMs]
  /\ UNCHANGED << analysisVars, http, helperVars >>

\* The timer of the constructor runs cleanup.
Cleanup ==
  /\ limiter' = [limiter EXCEPT !.store = cleanup(limiter.store, limiter.now)]
  /\ UNCHANGED << analysisVars, http, helperVars >>

\* A request of key comes to the middleware of strictRateLimiter.
StrictRequest(key) ==
  /\ Entry(strictRateLimiter, limiter.store, key, limiter.now).count
       <= strictRateLimiter.maxRequests + MaxOver
  /\ LET r == middleware(strictRateLimiter, limiter.store, key, limiter.now)
     IN  /\ limiter' = [limiter EXCEPT !.store = r.store]
         /\ http' = [http EXCEPT
                       !.called = TRUE, !.key = key,
                       !.status = r.response.status,
                       !.remaining = r.response.remaining,
                       !.reset = r.response.reset,
                       !.retryAfter = r.response.retryAfter,
                       !.handler = IF r.response.status = 0 THEN "next" ELSE "",
                       !.before = http.window[key],
                       !.window[key] = Observe(strictRateLimiter, @, limiter.now,
                                               r.response.status)]
  /\ UNCHANGED << analysisVars, helperVars >>

NextLimiter == Tick \/ Cleanup \/ \E key \in Keys : StrictRequest(key)

\* strictRateLimiter, its clients and its timer.
SpecLimiter == Init /\ [][NextLimiter]_vars

\* ------------------------------------------------------------------------
\* The express app
\* ------------------------------------------------------------------------

\* The client of the app.
AppKey == "10.0.0.1"

\* router.post and router.get of routes/analysis.ts, in the order of the
\* file.
analysisRoutes ==
  << [method |-> "POST", path |-> <<"text">>, handler |-> "analyzeText"],
     [method |-> "POST", path |-> <<"image">>, handler |-> "analyzeImage"],
     [method |-> "GET", path |-> <<"history">>, handler |-> "getAnalysisHistory"],
     [method |-> "GET", path |-> <<":id">>, handler |-> "getAnalysisById"],
     [method |-> "GET", path |-> <<"stats", "overview">>, handler |-> "getStatistics"],
     [method |-> "GET", path |-> <<"health">>, handler |-> "healthCheck"] >>

\* The path app.use mounts the router on.
analysisMount == <<"api", "v1", "analysis">>

\* The requests the client sends.
AppRequests ==
  { [method |-> "GET", path |-> <<"health">>],
    [method |-> "POST", path |-> analysisMount \o <<"text">>],
    [method |-> "POST", path |-> analysisMount \o <<"image">>],
    [method |-> "GET", path |-> analysisMount \o <<"history">>],
    [method |-> "GET", path |-> analysisMount \o <<"health">>],
    [method |-> "GET", path |-> analysisMount \o <<"stats", "overview">>],
    [method |-> "GET", path |-> analysisMount \o <<"65f0c0ffee">>],
    [method |-> "GET", path |-> <<"api", "v1", "plugin", "info">>],
    [method |-> "GET", path |-> <<"favicon.ico">>] }

\* A segment of a route path that is a parameter.
IsParameter(segment) == segment \in {":id"}

\* The route is for the method and its path matches, segment by segment.
RouteMatches(route, method, path) ==
  /\ route.method = method
  /\ Len(route.path) = Len(path)
  /\ \A i \in 1..Len(path) : IsParameter(route.path[i]) \/ route.path[i] = path[i]

\* The handler the router gives the request to: that of the first route
\* that matches (none of the controller's handlers calls next); "" if no
\* route matches.
Dispatch(routes, method, path) ==
  LET matching == {i \in 1..Len(routes) : RouteMatches(routes[i], method, path)}
  IN  IF matching = {} THEN "" ELSE routes[Min(matching)].handler

\* The handler of the app for a request the rate limiter has passed on:
\* app.get('/health'), the analysis router, app.get('/api/v1/plugin/info'),
\* notFoundHandler.
AppHandler(method, path) ==
  LET mounted  == /\ Len(path) >= Len(analysisMount)
                  /\ SubSeq(path, 1, Len(analysisMount)) = analysisMount
      inRouter == IF mounted
                  THEN Dispatch(analysisRoutes, method,
                                SubSeq(path, Len(analysisMount) + 1, Len(path)))
                  ELSE ""
  IN  IF method = "GET" /\ path = <<"health">> THEN "health"
      ELSE IF inRouter # "" THEN inRouter
      ELSE IF method = "GET" /\ path = <<"api", "v1", "plugin", "info">> THEN "pluginInfo"
      ELSE "notFoundHandler"

\* The request is for one of the two analysis endpoints.
IsAnalysisRequest(method, path) ==
  /\ method = "POST"
  /\ path \in {analysisMount \o <<"text">>, analysisMount \o <<"image">>}

\* The analysis requests of a key in the minute that began with the first
\* of them, this one at now included (counted up to limit + 1).
CountMinute(minute, now, limit) ==
  IF minute.requests = 0 \/ now - minute.start >= 60 * 1000
  THEN [start |-> now, requests |-> 1]
  ELSE [minute EXCEPT !.requests = Min2(@ + 1, limit + 1)]

\* The client sends a request to the app: app.use gives it to the
\* middleware of generalRateLimiter, and what that passes on to the routes.
\* The client stops after a few requests more than analysisRateLimiter
\* allows.
AppRequest(request) ==
  /\ Entry(generalRateLimiter, limiter.store, AppKey, limiter.now).count
       <= analysisRateLimiter.maxRequests + MaxOver
  /\ LET r == middleware(generalRateLimiter, limiter.store, AppKey, limiter.now)
     IN  /\ limiter' = [limiter EXCEPT !.store = r.store]
         /\ http' = [http EXCEPT
                       !.called = TRUE, !.key = AppKey,
                       !.method = request.method, !.path = request.path,
                       !.status = r.response.status,
                       !.remaining = r.response.remaining,
                       !.reset = r.response.reset,
                       !.retryAfter = r.response.retryAfter,
                       !.handler = IF r.response.status = 0
                                   THEN AppHandler(request.method, request.path)
                                   ELSE "",
                       !.before = http.window[AppKey],
                       !.window[AppKey] = Observe(generalRateLimiter, @, limiter.now,
                                                  r.response.status),
                       !.minute[AppKey] =
                          IF IsAnalysisRequest(request.method, request.path)
                          THEN CountMinute(@, limiter.now, analysisRateLimiter.maxRequests)
                          ELSE @]
  /\ UNCHANGED << analysisVars, helperVars >>

NextApp == Tick \/ Cleanup \/ \E request \in AppRequests : AppRequest(request)

\* The app, its client and the timer of generalRateLimiter.
SpecApp == Init /\ [][NextApp]_vars

\* ------------------------------------------------------------------------
\* PluginHelpers.retryWithBackoff
\* ------------------------------------------------------------------------

\* The greatest maxRetries of the calls.
MaxRetries == 4

\* The baseDelay of the calls, the default among them.
BaseDelays == {100, 250, 1000}

RECURSIVE Pow2(_)
Pow2(n) == IF n = 0 THEN 1 ELSE 2 * Pow2(n - 1)

\* The delay before the next attempt, growing by baseDelay each time.
Delay_Linear(baseDelay, attempt) == baseDelay * (attempt + 1)

\* baseDelay * Math.pow(2, attempt)
Delay(baseDelay, attempt) == baseDelay * Pow2(attempt)

\* retryWithBackoff(fn, maxRetries, baseDelay) is called: the loop begins
\* with attempt 0 and calls fn.
RetryStart ==
  /\ retry.pc = "idle"
  /\ \E maxRetries \in 0..MaxRetries, baseDelay \in BaseDelays :
       retry' = [NoRetry EXCEPT !.pc = "calling", !.maxRetries = maxRetries,
                                !.baseDelay = baseDelay, !.calls = <<"pending">>]
  /\ UNCHANGED << analysisVars, limiter, http, block >>

\* The promise of fn resolves: retryWithBackoff returns its value (the
\* values and errors of fn are told apart by the number of the call).
FnResolves ==
  /\ retry.pc = "calling"
  /\ retry' = [retry EXCEPT !.pc = "resolved", !.result = Len(retry.calls),
                            !.calls[Len(retry.calls)] = "resolved"]
  /\ UNCHANGED << analysisVars, limiter, http, block >>

\* The promise of fn rejects: the error is kept; after the last attempt it
\* is thrown, else the timer is set.
FnRejects ==
  /\ retry.pc = "calling"
  /\ retry' = [retry EXCEPT
                 !.lastError = Len(retry.calls),
                 !.calls[Len(retry.calls)] = "rejected",
                 !.pc = IF retry.attempt = retry.maxRetries THEN "rejected" ELSE "waiting",
                 !.delays = IF retry.attempt = retry.maxRetries THEN @
                            ELSE Append(@, Delay(retry.baseDelay, retry.attempt))]
  /\ UNCHANGED << analysisVars, limiter, http, block >>

\* The timer fires: the next attempt calls fn.
TimerFires ==
  /\ retry.pc = "waiting"
  /\ retry' = [retry EXCEPT !.pc = "calling", !.attempt = @ + 1,
                            !.calls = Append(@, "pending")]
  /\ UNCHANGED << analysisVars, limiter, http, block >>

\* The caller has the value or the error.
RetryLeave ==
  /\ retry.pc \in {"resolved", "rejected"}
  /\ retry' = NoRetry
  /\ UNCHANGED << analysisVars, limiter, http, block >>

NextRetry == RetryStart \/ FnResolves \/ FnRejects \/ TimerFires \/ RetryLeave

SpecRetry == Init /\ [][NextRetry]_vars

\* Every call of fn settles and every timer fires.
FairSpecRetry ==
  SpecRetry /\ WF_vars(FnResolves \/ FnRejects) /\ WF_vars(TimerFires)

\* ------------------------------------------------------------------------
\* shouldBlockContent
\* ------------------------------------------------------------------------

\* reasons.join(', ')
RECURSIVE Join(_)
Join(reasons) ==
  IF reasons = <<>> THEN ""
  ELSE IF Len(reasons) = 1 THEN reasons[1]
  ELSE reasons[1] \o ", " \o Join(Tail(reasons))

\* The reasons both versions push, in their order.
BlockReasons(results, thresholds) ==
  When(results.hateSpeech.score >= thresholds.hateSpeech * Scale, "hate speech detected")
    \o When(results.toxicity.score >= thresholds.toxicity * Scale, "toxic content detected")
    \o When(results.harassment.score >= thresholds.harassment * Scale, "harassment detected")
    \o When(results.profanity.score >= thresholds.profanity * Scale, "profanity detected")
    \o When(results.overallRisk = "critical", "critical risk level")

\* PluginHelpers.shouldBlockContent without the test of overallRisk.
shouldBlockContent_NoCritical(results, thresholds) ==
  LET shouldBlock ==
        \/ results.hateSpeech.score >= thresholds.hateSpeech * Scale
        \/ results.toxicity.score >= thresholds.toxicity * Scale
        \/ results.harassment.score >= thresholds.harassment * Scale
        \/ results.profanity.score >= thresholds.profanity * Scale
  IN  IF ~shouldBlock THEN [shouldBlock |-> FALSE, reason |-> NoReason]
      ELSE [shouldBlock |-> TRUE,
            reason |-> [defined |-> TRUE, text |-> Join(BlockReasons(results, thresholds))]]

\* PluginHelpers.shouldBlockContent (scores are times Scale)
shouldBlockContent(results, thresholds) ==
  LET shouldBlock ==
        \/ results.hateSpeech.score >= thresholds.hateSpeech * Scale
        \/ results.toxicity.score >= thresholds.toxicity * Scale
        \/ results.harassment.score >= thresholds.harassment * Scale
        \/ results.profanity.score >= thresholds.profanity * Scale
        \/ results.overallRisk = "critical"
  IN  IF ~shouldBlock THEN [shouldBlock |-> FALSE, reason |-> NoReason]
      ELSE [shouldBlock |-> TRUE,
            reason |-> [defined |-> TRUE, text |-> Join(BlockReasons(results, thresholds))]]

\* HateSpeechDetectionPlugin.shouldBlockContent; thresholds are
\* this.config.thresholds.
pluginShouldBlockContent(results, thresholds) ==
  LET shouldBlock ==
        \/ results.hateSpeech.score >= thresholds.hateSpeech * Scale
        \/ results.toxicity.score >= thresholds.toxicity * Scale
        \/ results.harassment.score >= thresholds.harassment * Scale
        \/ results.profanity.score >= thresholds.profanity * Scale
        \/ results.overallRisk = "critical"
  IN  [shouldBlock |-> shouldBlock,
       reason      |-> IF shouldBlock
                       THEN [defined |-> TRUE, text |-> Join(BlockReasons(results, thresholds))]
                       ELSE NoReason,
       riskLevel   |-> results.overallRisk]

\* The scores of the results given to shouldBlockContent.
BlockScores == {0, 49 * Scale, 50 * Scale, 70 * Scale}

\* The thresholds: the defaults of the plugin's constructor, and a stricter
\* configuration.
ThresholdChoices ==
  {[hateSpeech |-> DEFAULT_THRESHOLDS.HATE_SPEECH, toxicity |-> DEFAULT_THRESHOLDS.TOXICITY,
    harassment |-> DEFAULT_THRESHOLDS.HARASSMENT, profanity |-> DEFAULT_THRESHOLDS.PROFANITY],
   [hateSpeech |-> 50, toxicity |-> 50, harassment |-> 50, profanity |-> 71]}

\* Both versions of shouldBlockContent are called on the same results, the
\* plugin configured with the thresholds the helper is given.
ShouldBlock ==
  /\ ~block.called
  /\ \E h \in BlockScores, t \in BlockScores, r \in BlockScores, p \in BlockScores,
        risk \in {"safe", "warning", "danger", "critical"},
        thresholds \in ThresholdChoices :
       LET results == [hateSpeech |-> [score |-> h], toxicity |-> [score |-> t],
                       harassment |-> [score |-> r], profanity |-> [score |-> p],
                       overallRisk |-> risk]
       IN  block' = [called |-> TRUE, results |-> results, thresholds |-> thresholds,
                     helpers |-> shouldBlockContent(results, thresholds),
                     plugin  |-> pluginShouldBlockContent(results, thresholds)]
  /\ UNCHANGED << analysisVars, limiter, http, retry >>

\* The caller has both answers.
BlockLeave ==
  /\ block.called
  /\ block' = NoBlock
  /\ UNCHANGED << analysisVars, limiter, http, retry >>

NextBlock == ShouldBlock \/ BlockLeave

SpecBlock == Init /\ [][NextBlock]_vars

\* ------------------------------------------------------------------------
\* Properties
\* ------------------------------------------------------------------------

Categories == {"hateSpeech", "toxicity", "harassment", "profanity", "sentiment"}

\* The category result of a report.
Category(report, c) ==
  CASE c = "hateSpeech" -> report.hateSpeech
    [] c = "toxicity"   -> report.toxicity
    [] c = "harassment" -> report.harassment
    [] c = "profanity"  -> report.profanity
    [] c = "sentiment"  -> report.sentiment

\* safe < warning < danger < critical
RiskRank(risk) ==
  CASE risk = "safe" -> 0 [] risk = "warning" -> 1 [] risk = "danger" -> 2
    [] risk = "critical" -> 3

\* low < medium < high < critical
LevelRank(level) ==
  CASE level = "low" -> 0 [] level = "medium" -> 1 [] level = "high" -> 2
    [] level = "critical" -> 3

\* cur has returned and repeats the request of the call before it, and the
\* classifiers did for both calls the same.
RepeatedAlike ==
  /\ cur.pc = "done"
  /\ prev.valid
  /\ prev.hateML = cur.hateML
  /\ prev.toxML = cur.toxML

\* C1: analyzeText called twice in a row with the same text on one service
\* instance, the classifiers answering (or failing) the same both times,
\* gives the same overallRisk, the same result (score, level, detected) in
\* each of the five categories and the same flaggedWords.
C1_Idempotent ==
  RepeatedAlike =>
    LET second == Report
        first  == PrevReport
    IN  /\ second.overallRisk = first.overallRisk
        /\ \A c \in Categories : Category(second, c) = Category(first, c)
        /\ second.flaggedWords = first.flaggedWords

\* A request is repeated alike and analyzePatterns gives the second call
\* another score than the first.
C1_Witness == RepeatedAlike /\ cur.patternScore # prev.patternScore

\* C2: in every report analyzeText returns, the score of each of the five
\* categories lies in [0, 100].
C2_ScoresInRange ==
  cur.pc = "done" =>
    LET report == Report
    IN  \A c \in Categories :
          /\ Category(report, c).score >= 0
          /\ Category(report, c).score <= 100 * Scale

\* The breakpoint function: critical from 80, high from 60, medium from 40,
\* else low.
Breakpoint(score) ==
  CASE score >= 80 * Scale -> "critical"
    [] score < 80 * Scale /\ score >= 60 * Scale -> "high"
    [] score < 60 * Scale /\ score >= 40 * Scale -> "medium"
    [] score < 40 * Scale -> "low"

\* C3: in every report, the level of each category is the breakpoint
\* function of the category's reported score, also where the level was
\* taken from the score before the clamp to 100; and the levels are
\* monotonic in the reported scores.
C3_LevelOfScore ==
  cur.pc = "done" =>
    LET report == Report
    IN  /\ \A c \in Categories :
             Category(report, c).level = Breakpoint(Category(report, c).score)
        /\ \A c1 \in Categories, c2 \in Categories :
             Category(report, c1).score <= Category(report, c2).score =>
               LevelRank(Category(report, c1).level)
                 <= LevelRank(Category(report, c2).level)

\* A report whose toxicity score was above 100 before the clamp, with
\* another category exactly on a breakpoint.
C3_Witness ==
  /\ cur.pc = "done"
  /\ Request[cur.text].intent.isHostile
  /\ Times(ToxicityAnalyze(Request[cur.text].toxicity, cur.patternScore, cur.toxML) * Scale,
           13, 10) > 100 * Scale
  /\ Report.toxicity.score = 100 * Scale
  /\ Report.toxicity.level = "critical"
  /\ Report.hateSpeech.score = 40 * Scale
  /\ Report.hateSpeech.level = "medium"

\* A score of ScoreGrid or SentimentGrid in percent.
Percent(score) == score \div Scale

\* The adjusted score of C4 in units of 1/100000: the weights in percent,
\* each multiplier in tenths (10 where it does not apply).
C4_Adjusted ==
  LET weighted == 35 * Percent(agg.scores[1]) + 25 * Percent(agg.scores[3])
                    + 20 * Percent(agg.scores[2]) + 15 * Percent(agg.scores[4])
                    + 5 * Percent(agg.scores[5])
      sarcasm  == IF agg.context.isSarcastic \/ agg.context.isIronic THEN 4 ELSE 10
      educational == IF agg.context.isEducational \/ agg.context.isHistorical
                     THEN 3 ELSE 10
      threat   == IF agg.intent.isThreatening \/ agg.intent.isAggressive THEN 13 ELSE 10
  IN  weighted * sarcasm * educational * threat

\* C4: the aggregator returns the level of adjusted = 0.35 hateSpeech +
\* 0.25 harassment + 0.20 toxicity + 0.15 profanity + 0.05 sentiment, times
\* 0.4 under sarcasm or irony, times 0.3 under an educational or historical
\* context, times 1.3 under a threatening or aggressive intent: critical
\* from 70, danger from 50, warning from 30, else safe.
C4_OverallRisk ==
  agg.called =>
    agg.overallRisk =
      (CASE C4_Adjusted >= 70 * 100000 -> "critical"
         [] C4_Adjusted < 70 * 100000 /\ C4_Adjusted >= 50 * 100000 -> "danger"
         [] C4_Adjusted < 50 * 100000 /\ C4_Adjusted >= 30 * 100000 -> "warning"
         [] C4_Adjusted < 30 * 100000 -> "safe")

\* The aggregator ran under an educational context with the adjusted score
\* exactly on a threshold: 100 * 0.3 = 30.
C4_Witness ==
  /\ agg.called
  /\ agg.context.isEducational
  /\ ~agg.context.isSarcastic /\ ~agg.context.isIronic
  /\ ~agg.intent.isThreatening /\ ~agg.intent.isAggressive
  /\ C4_Adjusted = 30 * 100000
  /\ agg.overallRisk = "warning"

\* C5: under fixed context and intent signals, raising one of the five
\* category scores with the other four fixed never gives a less severe
\* overallRisk.
C5_Monotonic ==
  agg.raised # 0 => RiskRank(agg.overallRisk) >= RiskRank(agg.before)

\* Raising one score made overallRisk more severe.
C5_Witness ==
  /\ agg.raised # 0
  /\ RiskRank(agg.overallRisk) > RiskRank(agg.before)

\* The confidence of C7 as a fraction of 100000: max(0, 100 - 2 stdDev) in
\* hundredths, each multiplier in tenths (10 where it does not apply).
C7_Confidence ==
  LET spread  == 2 * StdDev100(agg.scores)
      base    == IF spread > 100 * 100 THEN 0 ELSE 100 * 100 - spread
      sarcasm == IF agg.context.isSarcastic \/ agg.context.isIronic THEN 7 ELSE 10
      educational == IF agg.context.isEducational \/ agg.context.isHistorical
                     THEN 8 ELSE 10
      clear   == IF agg.intent.isClear THEN 11 ELSE 10
  IN  base * sarcasm * educational * clear

\* C7: confidence lies in [0, 100]: it is max(0, 100 - 2 stdDev) of the
\* five category scores, times 0.7 under sarcasm or irony, times 0.8 under
\* an educational or historical context, times 1.1 under a clear intent,
\* clamped to 100 (and rounded to the nearest integer).
C7_ConfidenceInRange ==
  agg.called =>
    /\ agg.confidence \in 0..100
    /\ C7_Confidence >= 100 * 100000 => agg.confidence = 100
    /\ C7_Confidence < 100 * 100000 =>
         /\ 2 * 100000 * agg.confidence <= 2 * C7_Confidence + 100000
         /\ 2 * 100000 * agg.confidence > 2 * C7_Confidence - 100000

\* Equal scores under a clear intent: 100 * 1.1 is clamped to 100.
C7_Witness ==
  /\ agg.called
  /\ agg.intent.isClear
  /\ ~agg.context.isSarcastic /\ ~agg.context.isIronic
  /\ ~agg.context.isEducational /\ ~agg.context.isHistorical
  /\ StdDev100(agg.scores) = 0
  /\ C7_Confidence > 100 * 100000
  /\ agg.confidence = 100

\* The analysis of the request of cur under its own signals but for
\* isSarcastic, which is set to sarcastic: same matches, same classifier
\* outcomes, same other signals.
UnderSarcasm(sarcastic) ==
  Analysis(Request[cur.text],
           [Request[cur.text].context EXCEPT !.isSarcastic = sarcastic],
           Request[cur.text].intent, cur.patternScore, cur.hateML, cur.toxML)

\* C6: of two analyses that differ in the sarcasm signal only (same
\* matches, same classifier scores, same other context and intent
\* signals), the sarcastic one never has the more severe overallRisk.
C6_SarcasmDampens ==
  cur.pc = "done" =>
    RiskRank(UnderSarcasm(TRUE).overallRisk) <= RiskRank(UnderSarcasm(FALSE).overallRisk)

\* A sarcastic request whose report is less severe than it would be
\* without the sarcasm signal.
C6_Witness ==
  /\ cur.pc = "done"
  /\ Request[cur.text].context.isSarcastic
  /\ Report = UnderSarcasm(TRUE)
  /\ RiskRank(Report.overallRisk) < RiskRank(UnderSarcasm(FALSE).overallRisk)

\* The toxicity score of the request of cur from the rules alone: the
\* keyword, pattern, sentiment and aggression scores, capped at 100, then
\* the context and intent factors of analyzeToxicity and the clamp.
C8_ToxicityRules ==
  LET m    == Request[cur.text].toxicity
      ctx  == Request[cur.text].context
      int  == Request[cur.text].intent
      s0   == Min2(m.keywordScore + cur.patternScore + m.sentimentScore
                     + m.aggressionScore, 100) * Scale
      s1   == IF ctx.isSarcastic \/ ctx.isIronic THEN (s0 * 4) \div 10 ELSE s0
      s2   == IF ctx.isPlayful \/ ctx.isFriendly THEN (s1 * 3) \div 10 ELSE s1
      s3   == IF int.isAggressive \/ int.isHostile THEN (s2 * 13) \div 10 ELSE s2
  IN  Min2(s3, 100 * Scale)

\* C8: when the classifier call of the hate speech or of the toxicity
\* detector fails, the report that analyzeText returns has for that
\* detector the score of its rules alone, and score, level and detected of
\* every other detector are what they are when the call answers.
C8_FallbackToRules ==
  cur.pc = "done" =>
    LET report == Report
        rq     == Request[cur.text]
    IN  /\ cur.hateML = MLFail =>
             /\ report.hateSpeech.score
                  = Clamp100(HateRuleScore(rq.hateSpeech, rq.context, rq.intent))
             /\ \A score \in MLScores :
                  LET answered ==
                        analyzeText(cur.text, cur.patternScore, Answer(score), cur.toxML)
                  IN  \A c \in Categories \ {"hateSpeech"} :
                        Category(report, c) = Category(answered, c)
        /\ cur.toxML = MLFail =>
             /\ report.toxicity.score = C8_ToxicityRules
             /\ \A score \in MLScores :
                  LET answered ==
                        analyzeText(cur.text, cur.patternScore, cur.hateML, Answer(score))
                  IN  \A c \in Categories \ {"toxicity"} :
                        Category(report, c) = Category(answered, c)

\* A report after a failed hate speech classifier call, on a text the hate
\* speech rules match, the toxicity classifier having answered.
C8_Witness ==
  /\ cur.pc = "done"
  /\ cur.hateML = MLFail
  /\ cur.toxML \in {Answer(score) : score \in MLScores}
  /\ Report.hateSpeech.score > 0
  /\ Report.toxicity.score > 0

\* C9: the classifier calls carry a timeout, so that every analyzeText
\* call completes in the end, also when a classifier never responds.
C9_EveryCallCompletes == (cur.pc = "awaiting") ~> (cur.pc = "done")

\* A call waits for both classifiers.
C9_Witness == cur.pc = "awaiting" /\ cur.hateML = Pending /\ cur.toxML = Pending

\* The hate speech score of the request of cur in the order of C10: the
\* tiers, the blend with the classifier score, the context factors, the
\* intent factor, the clamp.
C10_HateInOrder ==
  LET m      == Request[cur.text].hateSpeech
      ctx    == Request[cur.text].context
      int    == Request[cur.text].intent
      tiers  == (40 * m.directHate + 25 * m.indirectHate + 35 * m.dehumanizing) * Scale
      ml     == getMLHateSpeechScore(cur.hateML) * Scale
      merged == IF ml > tiers THEN ml ELSE tiers
      s1     == IF ctx.isSarcastic \/ ctx.isIronic THEN (merged * 3) \div 10 ELSE merged
      s2     == IF ctx.isEducational \/ ctx.isHistorical THEN (s1 * 2) \div 10 ELSE s1
      s3     == IF int.isThreatening THEN (s2 * 15) \div 10 ELSE s2
  IN  Min2(s3, 100 * Scale)

\* The toxicity score of the request of cur in the order of C10, the merged
\* score being the result of ToxicityAnalyzer.analyze.
C10_ToxicityInOrder ==
  LET ctx    == Request[cur.text].context
      int    == Request[cur.text].intent
      merged == ToxicityAnalyze(Request[cur.text].toxicity, cur.patternScore, cur.toxML)
                  * Scale
      s1     == IF ctx.isSarcastic \/ ctx.isIronic THEN (merged * 4) \div 10 ELSE merged
      s2     == IF ctx.isPlayful \/ ctx.isFriendly THEN (s1 * 3) \div 10 ELSE s1
      s3     == IF int.isAggressive \/ int.isHostile THEN (s2 * 13) \div 10 ELSE s2
  IN  Min2(s3, 100 * Scale)

\* C10: the hate speech and the toxicity detector run tier accumulation,
\* external blend, context dampening, intent amplification and clamp in
\* this order: the final score is clamp(merged score x damping factors x
\* amplification factors).
C10_FixedOrder ==
  cur.pc = "done" =>
    /\ Report.hateSpeech.score = C10_HateInOrder
    /\ Report.toxicity.score = C10_ToxicityInOrder

\* A report on a sarcastic text the hate speech rules match, the hate
\* speech classifier having answered with more than the tiers give.
C10_Witness ==
  /\ cur.pc = "done"
  /\ Request[cur.text].context.isSarcastic
  /\ HateTierMatch(Request[cur.text].hateSpeech)
  /\ cur.hateML = Answer(90)
  /\ Report.hateSpeech.score = 90 * Scale

\* Some tier pattern of analyzeHarassment matched.
HarassmentTierMatch(m) ==
  m.directThreats + m.stalking + m.intimidation + m.cyberbullying > 0

\* The contexts that differ from ctx in the dampening signals only.
Dampenings(ctx) ==
  {[ctx EXCEPT !.isSarcastic = a, !.isIronic = b, !.isEducational = c,
               !.isHistorical = d] :
     a \in BOOLEAN, b \in BOOLEAN, c \in BOOLEAN, d \in BOOLEAN}

\* C11: hateSpeech.detected is true exactly when a direct, indirect or
\* dehumanizing pattern matched or the final score is above 30;
\* harassment.detected is true exactly when a tier pattern matched; and
\* no context dampening turns a detected that is true to false.
C11_Detected ==
  cur.pc = "done" =>
    LET report == Report
        rq     == Request[cur.text]
    IN  /\ report.hateSpeech.detected
             <=> (HateTierMatch(rq.hateSpeech) \/ report.hateSpeech.score > 30 * Scale)
        /\ report.harassment.detected <=> HarassmentTierMatch(rq.harassment)
        /\ \A ctx \in Dampenings(rq.context) :
             LET damped == Analysis(rq, ctx, rq.intent, cur.patternScore,
                                    cur.hateML, cur.toxML)
             IN  /\ report.hateSpeech.detected => damped.hateSpeech.detected
                 /\ report.harassment.detected => damped.harassment.detected

\* A sarcastic text that a hate tier matches: the score is dampened to 30
\* or less and detected is true; and the classifier answered exactly 30.
C11_Witness ==
  /\ cur.pc = "done"
  /\ Request[cur.text].context.isSarcastic
  /\ HateTierMatch(Request[cur.text].hateSpeech)
  /\ cur.hateML = Answer(30)
  /\ Report.hateSpeech.score = 30 * Scale
  /\ Report.hateSpeech.detected

\* The default blocking threshold of a category.
BlockingThreshold(c) ==
  CASE c = "hateSpeech" -> DEFAULT_THRESHOLDS.HATE_SPEECH
    [] c = "toxicity"   -> DEFAULT_THRESHOLDS.TOXICITY
    [] c = "harassment" -> DEFAULT_THRESHOLDS.HARASSMENT
    [] c = "profanity"  -> DEFAULT_THRESHOLDS.PROFANITY

\* C12: in every report, a score of hateSpeech, toxicity, harassment or
\* profanity at or above the category's default blocking threshold (70,
\* 60, 65, 50) comes with detected true.
C12_DetectedWhenBlocking ==
  cur.pc = "done" =>
    LET report == Report
    IN  \A c \in Categories \ {"sentiment"} :
          Category(report, c).score >= BlockingThreshold(c) * Scale
            => Category(report, c).detected

\* A report with the profanity score between its blocking threshold and
\* 75 and the hate speech score at or above its blocking threshold.
C12_Witness ==
  /\ cur.pc = "done"
  /\ Report.profanity.score >= DEFAULT_THRESHOLDS.PROFANITY * Scale
  /\ Report.profanity.score <= 75 * Scale
  /\ Report.profanity.detected
  /\ Report.hateSpeech.score >= DEFAULT_THRESHOLDS.HATE_SPEECH * Scale
  /\ Report.hateSpeech.detected

\* C13: a fault in preprocessing, in the classification of context or
\* intent, in a detector's own scoring or in the aggregation is fatal to
\* the analysis: analyzeText fails and returns no report in which the
\* score of the faulting component is a default.
C13_FaultsAreFatal == fault # "none" => cur.pc # "done"

\* A report is returned after toxicityAnalyzer.analyze threw on a text its
\* keywords match: the toxicity score of the report is 0.
C13_Witness ==
  /\ cur.pc = "done"
  /\ fault = "toxicityAnalyzer"
  /\ Request[cur.text].toxicity.keywordScore > 0
  /\ FaultReport.toxicity.score = 0

\* The context ctx with the educational and historical flags cleared.
NotEducational(ctx) == [ctx EXCEPT !.isEducational = FALSE, !.isHistorical = FALSE]

\* C14: in a report on a text of educational or historical context, the
\* score of each of hateSpeech, toxicity, harassment and profanity is at
\* most 0.3 times the score the same call gets without that context.
C14_EducationalDampens ==
  cur.pc = "done" =>
    LET rq == Request[cur.text]
        report == Report
        plain == Analysis(rq, NotEducational(rq.context), rq.intent,
                          cur.patternScore, cur.hateML, cur.toxML)
    IN  (rq.context.isEducational \/ rq.context.isHistorical) =>
          \A c \in Categories \ {"sentiment"} :
            10 * Category(report, c).score <= 3 * Category(plain, c).score

\* A report on an educational text whose toxicity and harassment scores are
\* positive and the same as without the educational context, while its
\* profanity score is dampened.
C14_Witness ==
  /\ cur.pc = "done"
  /\ Request[cur.text].context.isEducational
  /\ LET rq == Request[cur.text]
         plain == Analysis(rq, NotEducational(rq.context), rq.intent,
                           cur.patternScore, cur.hateML, cur.toxML)
     IN  /\ Report.toxicity.score > 0
         /\ Report.toxicity.score = plain.toxicity.score
         /\ Report.harassment.score > 0
         /\ Report.harassment.score = plain.harassment.score

\* Number of words of a request text.
WordCount(raw) == Cardinality({k \in 1..Len(raw) : raw[k] \notin Punctuation})

\* The request text ends with one of . ! ?
TerminalPunctuation(raw) == raw # <<>> /\ raw[Len(raw)] \in {".", "!", "?"}

\* C15: the report on a request text of more than five words that ends with
\* terminal punctuation has intent.isClear = TRUE.
C15_ClearIntent ==
  cur.pc = "done" /\ WordCount(cur.text) > 5 /\ TerminalPunctuation(cur.text)
    => Report.intent.isClear

\* A report on a text of more than five words that ends with an exclamation
\* mark; the text the intent analyzer was given has no punctuation left.
C15_Witness ==
  /\ cur.pc = "done"
  /\ WordCount(cur.text) > 5
  /\ cur.text[Len(cur.text)] = "!"
  /\ \A i \in 1..Len(Request[cur.text].text.toks) :
       Request[cur.text].text.toks[i].w \notin Punctuation
  /\ ~Report.intent.isClear

\* C16: the combined result of an image request with a description takes,
\* for each of hateSpeech, toxicity, harassment and profanity, the greater
\* of the image score and the text score, the level of that score, and
\* detected if either detected; its confidence is the rounded mean of the
\* two confidences.  Without a description the result is the image
\* analysis, unchanged.
C16_Combined ==
  image.called =>
    IF image.textAnalysis = Null
    THEN image.analysis = image.imageAnalysis
    ELSE /\ \A c \in Categories \ {"sentiment"} :
              LET i == Category(image.imageAnalysis, c)
                  t == Category(image.textAnalysis, c)
                  r == Category(image.analysis, c)
              IN  /\ r.score >= i.score
                  /\ r.score >= t.score
                  /\ r.score \in {i.score, t.score}
                  /\ r.level = Breakpoint(r.score)
                  /\ r.detected <=> (i.detected \/ t.detected)
         /\ LET sum == image.imageAnalysis.confidence + image.textAnalysis.confidence
            IN  2 * image.analysis.confidence \in {sum, sum + 1}

\* A combined result that takes the score of a category from the image and
\* that of another from the description, with a confidence rounded up.
C16_Witness ==
  /\ image.called
  /\ image.textAnalysis # Null
  /\ image.analysis.hateSpeech.score > image.textAnalysis.hateSpeech.score
  /\ image.analysis.toxicity.score > image.imageAnalysis.toxicity.score
  /\ image.analysis.hateSpeech.level # image.textAnalysis.hateSpeech.level
  /\ (image.imageAnalysis.confidence + image.textAnalysis.confidence) % 2 = 1

\* No entry of the list is there twice.
NoDuplicates(list) ==
  \A i \in 1..Len(list), j \in 1..Len(list) : i # j => list[i] # list[j]

\* C17: the flaggedWords and the reasoning of every report of a text
\* analysis or of an image analysis, the merge of an image analysis with
\* the text analysis of its description included, have no duplicates.
C17_NoDuplicates ==
  image.called =>
    /\ NoDuplicates(image.analysis.flaggedWords)
    /\ image.textAnalysis # Null =>
         /\ NoDuplicates(image.textAnalysis.flaggedWords)
         /\ NoDuplicates(image.textAnalysis.reasoning)

\* A merge of an image analysis and a text analysis that both flag the
\* same word, each once: the merged list has it twice.
C17_Witness ==
  /\ image.called
  /\ image.textAnalysis # Null
  /\ NoDuplicates(image.imageAnalysis.flaggedWords)
  /\ NoDuplicates(image.textAnalysis.flaggedWords)
  /\ image.textAnalysis.reasoning # <<>>
  /\ NoDuplicates(image.textAnalysis.reasoning)
  /\ ~NoDuplicates(image.analysis.flaggedWords)

\* Both classifiers were unavailable to the call cur.
ClassifiersUnavailable == cur.hateML = MLFail /\ cur.toxML = MLFail

\* C18: with the classifiers unavailable, the report on "I hate all people
\* of this race" has hateSpeech.detected = TRUE and hateSpeech.score >= 70.
C18_DirectHateScenario ==
  /\ cur.pc = "done"
  /\ cur.text = <<"I", "hate", "all", "people", "of", "this", "race">>
  /\ ClassifiersUnavailable
  => /\ Report.hateSpeech.detected
     /\ Report.hateSpeech.score >= 70 * Scale

\* The report on that text: no pattern of the direct-hate tier matches it,
\* the score is 0 and nothing is detected.
C18_Witness ==
  /\ cur.pc = "done"
  /\ cur.text = <<"I", "hate", "all", "people", "of", "this", "race">>
  /\ ClassifiersUnavailable
  /\ Request[cur.text].hateSpeech.directHate = 0
  /\ Report.hateSpeech.score = 0
  /\ ~Report.hateSpeech.detected

\* C19: with the classifiers unavailable, the hateSpeech score of "yeah
\* right, I hate all those people" is strictly less than the hateSpeech
\* score of "I hate all those people".
C19_SarcasmScenario ==
  /\ cur.pc = "done"
  /\ cur.text = <<"yeah", "right", ",", "I", "hate", "all", "those", "people">>
  /\ ClassifiersUnavailable
  => Report.hateSpeech.score
       < analyzeText(<<"I", "hate", "all", "those", "people">>, 0, MLFail, MLFail).hateSpeech.score

\* The report on the sarcastic text: the sarcasm is seen, and the score is
\* 0 as it is for the text without the marker.
C19_Witness ==
  /\ cur.pc = "done"
  /\ cur.text = <<"yeah", "right", ",", "I", "hate", "all", "those", "people">>
  /\ ClassifiersUnavailable
  /\ Request[cur.text].context.isSarcastic
  /\ Report.hateSpeech.score = 0
  /\ analyzeText(<<"I", "hate", "all", "those", "people">>, 0, MLFail, MLFail).hateSpeech.score = 0

\* No lexicon word and no pattern of any category matches the text of the
\* call cur.
NothingMatches ==
  LET rq == Request[cur.text]
  IN  /\ ~HateTierMatch(rq.hateSpeech)
      /\ ~HarassmentTierMatch(rq.harassment)
      /\ rq.toxicity = [keywordScore |-> 0, sentimentScore |-> 0, aggressionScore |-> 0]
      /\ cur.patternScore = 0
      /\ rq.profanity = 0
      /\ rq.sentiment = 0

\* C20: the report on "Hello, how are you today?", and on any text that no
\* lexicon word and no pattern of any category matches, when the
\* classifiers contribute nothing, has overallRisk "safe" and detected
\* FALSE for all five categories.
C20_NothingFound ==
  cur.pc = "done" /\ ClassifiersUnavailable /\ NothingMatches =>
    LET report == Report
    IN  /\ report.overallRisk = "safe"
        /\ \A c \in Categories : ~Category(report, c).detected

\* The report on "Hello, how are you today?", which nothing matches.
C20_Witness ==
  /\ cur.pc = "done"
  /\ cur.text = <<"Hello", ",", "how", "are", "you", "today", "?">>
  /\ ClassifiersUnavailable
  /\ NothingMatches
  /\ Report.overallRisk = "safe"
  /\ \A c \in Categories : ~Category(Report, c).detected /\ Category(Report, c).score = 0

\* C21: for each key and window the middleware passes on at most
\* maxRequests requests; every further request of the key before the reset
\* time of the window is answered with 429 and not passed on; and
\* X-RateLimit-Remaining is max(0, maxRequests - requests counted in the
\* window).
C21_AtMostMaxRequests ==
  /\ \A key \in Keys : http.window[key].passed <= strictRateLimiter.maxRequests
  /\ http.called =>
       LET window == http.window[http.key]
       IN  /\ window.seen > strictRateLimiter.maxRequests =>
                http.status = 429 /\ http.handler = ""
           /\ http.remaining =
                IF window.seen >= strictRateLimiter.maxRequests THEN 0
                ELSE strictRateLimiter.maxRequests - window.seen

\* A key has had maxRequests requests passed on in a window and one more
\* answered with 429, while the other key still has requests left.
C21_Witness ==
  /\ http.called
  /\ http.status = 429
  /\ http.window[http.key].passed = strictRateLimiter.maxRequests
  /\ http.window[http.key].seen = strictRateLimiter.maxRequests + 1
  /\ \E key \in Keys : http.window[key].open /\ http.window[key].seen = 1

\* C27: a request inside the window of its key leaves the reset time where
\* it was; the first request of a key after the reset time of its window
\* begins a window with resetTime = now + windowMs and count 1, and is
\* accepted, also when the last request of the key was answered with 429.
C27_AcceptedAfterReset ==
  http.called =>
    LET before == http.before
        window == http.window[http.key]
    IN  /\ before.open /\ window.start = before.start => http.reset = before.reset
        /\ before.open /\ window.start > before.reset =>
             /\ http.reset = window.start + strictRateLimiter.windowMs
             /\ http.remaining = strictRateLimiter.maxRequests - 1
             /\ http.status = 0
             /\ http.handler = "next"

\* A key whose window saw every request it may send, the last ones answered
\* with 429, is accepted after the reset time of that window.
C27_Witness ==
  /\ http.called
  /\ http.before.status = 429
  /\ http.before.seen = strictRateLimiter.maxRequests + MaxOver
  /\ http.window[http.key].start > http.before.reset
  /\ http.status = 0

\* The times of the requests to come.
LaterTimes == {limiter.now + n * TickMs : n \in 0..3}

\* The answers to a request of key1 at time1 and a request of key2 at
\* time2 >= time1 on the store, when cleanup runs first if cleanFirst and
\* between the two if cleanBetween.
LaterAnswers(store, cleanFirst, key1, time1, cleanBetween, key2, time2) ==
  LET store1 == IF cleanFirst THEN cleanup(store, limiter.now) ELSE store
      first  == middleware(strictRateLimiter, store1, key1, time1)
      store2 == IF cleanBetween THEN cleanup(first.store, time1) ELSE first.store
      second == middleware(strictRateLimiter, store2, key2, time2)
  IN  << first.response, second.response >>

\* C30: cleanup, whenever it runs between requests, changes the answer
\* (passed or 429, remaining, reset time) to no later request.
C30_CleanupUnobservable ==
  \A key1 \in Keys, key2 \in Keys, time1 \in LaterTimes, time2 \in LaterTimes :
    time1 <= time2 =>
      \A cleanFirst \in BOOLEAN, cleanBetween \in BOOLEAN :
        LaterAnswers(limiter.store, cleanFirst, key1, time1, cleanBetween, key2, time2)
          = LaterAnswers(limiter.store, FALSE, key1, time1, FALSE, key2, time2)

\* cleanup has deleted the entry of a key whose window is over, while the
\* other key has used up its window, which ends now.
C30_Witness ==
  \E key1 \in Keys, key2 \in Keys :
    /\ http.window[key1].open
    /\ http.window[key1].reset < limiter.now
    /\ ~limiter.store[key1].present
    /\ limiter.store[key2].present
    /\ limiter.store[key2].count >= strictRateLimiter.maxRequests
    /\ limiter.store[key2].resetTime = limiter.now

\* C22: the 11th request of a client to POST /api/v1/analysis/text or
\* POST /api/v1/analysis/image within one minute is answered with 429 and
\* does not reach the analysis handler.
C22_AnalysisLimit ==
  /\ http.called
  /\ IsAnalysisRequest(http.method, http.path)
  /\ http.minute[http.key].requests > analysisRateLimiter.maxRequests
  => /\ http.status = 429
     /\ http.handler \notin {"analyzeText", "analyzeImage"}

\* The 11th analysis request of the client within a minute, passed on by
\* generalRateLimiter with requests to spare, is handled by analyzeText.
C22_Witness ==
  /\ http.called
  /\ IsAnalysisRequest(http.method, http.path)
  /\ http.minute[http.key].requests = analysisRateLimiter.maxRequests + 1
  /\ http.window[http.key].seen = analysisRateLimiter.maxRequests + 1
  /\ http.status = 0
  /\ http.remaining = generalRateLimiter.maxRequests - analysisRateLimiter.maxRequests - 1
  /\ http.handler = "analyzeText"

\* C23: GET /api/v1/analysis/health, when the rate limiter passes it on,
\* is handled by healthCheck and by no other route handler.
C23_HealthRoute ==
  /\ http.called
  /\ http.status = 0
  /\ http.method = "GET"
  /\ http.path = analysisMount \o <<"health">>
  => http.handler = "healthCheck"

\* GET /api/v1/analysis/health is handled by getAnalysisById, whose route
\* /:id is registered before /health.
C23_Witness ==
  /\ http.called
  /\ http.status = 0
  /\ http.method = "GET"
  /\ http.path = analysisMount \o <<"health">>
  /\ http.handler = "getAnalysisById"
  /\ \E i \in 1..Len(analysisRoutes), j \in 1..Len(analysisRoutes) :
       /\ i < j
       /\ analysisRoutes[i].handler = "getAnalysisById"
       /\ analysisRoutes[j].handler = "healthCheck"

\* The conditions of blocking that hold of the results, by the reason that
\* names each.
Triggered(results, thresholds) ==
  {c \in {"hate speech detected", "toxic content detected", "harassment detected",
          "profanity detected", "critical risk level"} :
     \/ c = "hate speech detected"
          /\ results.hateSpeech.score >= thresholds.hateSpeech * Scale
     \/ c = "toxic content detected"
          /\ results.toxicity.score >= thresholds.toxicity * Scale
     \/ c = "harassment detected"
          /\ results.harassment.score >= thresholds.harassment * Scale
     \/ c = "profanity detected"
          /\ results.profanity.score >= thresholds.profanity * Scale
     \/ c = "critical risk level" /\ results.overallRisk = "critical"}

\* The texts that name exactly the reasons of the set, each once, joined
\* by ", " in some order.
RECURSIVE Namings(_)
Namings(reasons) ==
  IF reasons = {} THEN {""}
  ELSE IF Cardinality(reasons) = 1 THEN reasons
  ELSE UNION {{c \o ", " \o rest : rest \in Namings(reasons \ {c})} : c \in reasons}

\* C24: shouldBlockContent returns shouldBlock = TRUE iff a score of
\* hateSpeech, toxicity, harassment or profanity is at or above its
\* threshold or overallRisk is critical; a reason is returned exactly when
\* shouldBlock is TRUE, and it names every condition that triggered; the
\* version of PluginHelpers and that of HateSpeechDetectionPlugin agree on
\* shouldBlock and reason.
C24_ShouldBlock ==
  block.called =>
    LET triggered == Triggered(block.results, block.thresholds)
    IN  /\ block.helpers.shouldBlock <=> triggered # {}
        /\ block.helpers.reason.defined <=> block.helpers.shouldBlock
        /\ block.helpers.shouldBlock => block.helpers.reason.text \in Namings(triggered)
        /\ block.plugin.shouldBlock = block.helpers.shouldBlock
        /\ block.plugin.reason = block.helpers.reason

\* Results blocked for overallRisk alone, and results blocked for a score
\* at its threshold and another above: the reason names them.
C24_Witness ==
  /\ block.called
  /\ block.helpers.shouldBlock
  /\ block.results.hateSpeech.score = block.thresholds.hateSpeech * Scale
  /\ block.results.profanity.score = (block.thresholds.profanity - 1) * Scale
  /\ block.results.overallRisk = "critical"
  /\ block.plugin.reason.text = "hate speech detected, critical risk level"

\* What holds of a call of retryWithBackoff at every moment.
RetryBounded ==
  LET calls == retry.calls
      delays == retry.delays
  IN  /\ Len(calls) <= retry.maxRetries + 1
      /\ \A i \in 1..Len(calls) : i < Len(calls) => calls[i] = "rejected"
      /\ Len(delays) = IF retry.pc = "waiting" THEN Len(calls)
                       ELSE IF calls = <<>> THEN 0 ELSE Len(calls) - 1
      /\ \A k \in 1..Len(delays) :
           delays[k] = IF k = 1 THEN retry.baseDelay ELSE 2 * delays[k - 1]
      /\ retry.pc = "resolved" =>
           calls[Len(calls)] = "resolved" /\ retry.result = Len(calls)
      /\ retry.pc = "rejected" =>
           /\ Len(calls) = retry.maxRetries + 1
           /\ \A i \in 1..Len(calls) : calls[i] = "rejected"
           /\ retry.lastError = Len(calls)
      /\ retry.pc = "waiting" => calls[Len(calls)] = "rejected"
      /\ retry.pc = "calling" => calls[Len(calls)] = "pending"

\* C28: retryWithBackoff(fn, maxRetries, baseDelay) calls fn at most
\* maxRetries + 1 times, stops at the first call that succeeds and returns
\* its result, waits baseDelay * 2^k after the k-th failure (k from 0),
\* rejects with the error of the last attempt after maxRetries + 1
\* failures, and terminates when every call of fn terminates.
C28_RetryWithBackoff ==
  /\ []RetryBounded
  /\ (retry.pc \in {"calling", "waiting"}) ~> (retry.pc \in {"resolved", "rejected"})

\* A call with the defaults (3 retries, 1000 ms) whose fn failed three
\* times and succeeded the fourth, after waits of 1000, 2000 and 4000 ms.
C28_Witness ==
  /\ retry.pc = "resolved"
  /\ retry.maxRetries = 3
  /\ retry.baseDelay = 1000
  /\ retry.calls = <<"rejected", "rejected", "rejected", "resolved">>
  /\ retry.delays = <<1000, 2000, 4000>>

\* The report of the request of cur analysed alone on a new
\* TextAnalysisService (the regexes of its ToxicityAnalyzer have lastIndex
\* 0), the classifiers doing what they did for cur.
IsolatedReport ==
  analyzeText(cur.text,
              analyzePatterns(Request[cur.text].text,
                              [i \in 1..Len(toxicityPatterns) |-> 0]).score,
              cur.hateML, cur.toxML)

\* C25: the result of analysing a text on a service instance does not
\* depend on the texts analysed earlier on the same instance: the scores
\* of the categories and overallRisk of each call equal those of analysing
\* its text alone on a new instance.
C25_Isolated ==
  cur.pc = "done" =>
    LET report == Report
        alone  == IsolatedReport
    IN  /\ report.overallRisk = alone.overallRisk
        /\ \A c \in Categories : Category(report, c).score = Category(alone, c).score

\* A call returned after its tests of the toxicity patterns began at the
\* lastIndex an earlier call left, and its toxicity score is not that of
\* its text analysed alone.
C25_Witness ==
  /\ cur.pc = "done"
  /\ cur.patternScore #
       analyzePatterns(Request[cur.text].text,
                       [i \in 1..Len(toxicityPatterns) |-> 0]).score
  /\ Report.toxicity.score # IsolatedReport.toxicity.score

\* C26: when an image is analysed together with a description, the
\* overallRisk of the combined result is never less severe than the
\* overallRisk of the text analysis of the description, nor than the
\* overallRisk of the image analysis (safe < warning < danger < critical).
C26_CombinedRisk ==
  (image.called /\ image.textAnalysis # Null) =>
    /\ RiskRank(image.analysis.overallRisk) >= RiskRank(image.textAnalysis.overallRisk)
    /\ RiskRank(image.analysis.overallRisk) >= RiskRank(image.imageAnalysis.overallRisk)

\* The vision model called the image a danger, with no score of the four
\* categories over 0; the description is harmless: the combined result is
\* safe.
C26_Witness ==
  /\ image.called
  /\ image.textAnalysis # Null
  /\ image.imageAnalysis.overallRisk = "danger"
  /\ image.textAnalysis.overallRisk = "safe"
  /\ image.analysis.overallRisk = "safe"

\* C29: image analysis never fails because of the vision service: when the
\* API key is missing, the call errors or its answer holds no JSON that
\* parses, analyzeImage returns a result whose image analysis is the
\* default one: the four category scores 0, level low, detected false,
\* overallRisk safe, confidence 50, and the suggestion that manual review
\* is recommended.
C29_DefaultAnalysis ==
  (image.called /\ image.visionFailed) =>
    /\ \A c \in {"hateSpeech", "toxicity", "harassment", "profanity"} :
         Category(image.imageAnalysis, c) = [score |-> 0, level |-> "low", detected |-> FALSE]
    /\ image.imageAnalysis.overallRisk = "safe"
    /\ image.imageAnalysis.confidence = 50
    /\ image.imageAnalysis.suggestions =
         <<"Unable to analyze image content - manual review recommended">>
    /\ image.analysis # Null
    /\ image.textAnalysis = Null => image.analysis = image.imageAnalysis

\* The vision service failed for a request with a description in which
\* the text analysis finds hate speech: the result is returned, the image
\* analysis in it the default one.
C29_Witness ==
  /\ image.called
  /\ image.visionFailed
  /\ image.textAnalysis # Null
  /\ image.imageAnalysis.confidence = 50
  /\ image.analysis.hateSpeech.score > 0
=============================================================================
